---- MODULE Spec2Model ----
(***************************************************************************)
(* A model of Handover_checklist_DB.py: the SQLite store behind DBManager  *)
(* and the handlers of the Qt window that write to it.                     *)
(*                                                                         *)
(* A table is the sequence of its rows in rowid order.  The id column is   *)
(* kept where the program reads it (projects, handover_docs,               *)
(* checklist_items) and left out where no statement of the program reads   *)
(* it (mes and the three matrix tables).                                   *)
(*                                                                         *)
(* db   is what the one shared connection sees: the committed rows and     *)
(*      those of the transaction that sqlite3 opened implicitly before a   *)
(*      DELETE / INSERT / UPDATE and that is still open;                   *)
(* disk is what the last commit made durable.                              *)
(* The program never calls rollback: a statement that raises leaves the    *)
(* transaction open, and the next commit of any method makes it durable.   *)
(*                                                                         *)
(* Environment: no NPI_Project_Data.xlsx workbook is present, and names    *)
(* and field values are str (never None).                                  *)
(***************************************************************************)
EXTENDS Integers, Sequences, FiniteSets, TLC

VARIABLES
    db, disk,           \* DBManager.conn: connection view and durable content
    last,               \* what the last call handed back to its caller
    faults,             \* statements that have raised for a reason outside the program
    assigned,           \* every project_id a projects row has ever carried
    current_product,    \* NPIProjectManager.current_product (None = "")
    current_project,    \* NPIProjectManager.current_project (None = "")
    product_dropdown,   \* items of the product combo box
    project_dropdown,   \* items of the project combo box
    form,               \* the line edits and the three tables of the Project tab
    lists_widgets,      \* HandoverTab.lists_widgets: the items of each category's list
    fs,                 \* the regular files under <cwd>/Projects
    archive,            \* the ZIP that perform_handover wrote last
    handover_log,       \* what the last perform_handover did, in order
    report              \* what the last _generate_project_pdf returned and wrote

handoverVars == <<lists_widgets, fs, archive, handover_log, report>>
uiVars == <<current_product, current_project, product_dropdown, project_dropdown, form,
            handoverVars>>
vars == <<db, disk, last, faults, assigned, current_product, current_project,
          product_dropdown, project_dropdown, form, handoverVars>>

(* ------------------------------ bounds --------------------------------- *)
\* project rows ever inserted (the model's cap on sqlite_sequence.projects)
MaxProjects == 2
\* longest row list handed to a matrix save by a caller of DBManager
MaxRows == 2
\* rows without seq that add_project may leave in a matrix table
MaxNullRows == 2
\* statements that raise for a reason outside the program (disk, lock, interrupt)
MaxFaults == 1
\* handover_docs rows ever inserted
MaxDocs == 2
\* checklist seedings ever done
MaxSeedings == 2
\* the write of the ZIP that may raise (0: none)
MaxZipFault == 2

(* --------------------------- Python / SQL values ----------------------- *)
\* SQL NULL in an INTEGER column whose real values start at 1
NULL == 0
\* SQL NULL (Python None) where the other values are text
NoneText == "<None>"

EmptyDict == [k \in {} |-> ""]

\* dict.get(key, default)
Get(d, key, default) == IF key \in DOMAIN d THEN d[key] ELSE default

\* x or ""
OrEmpty(x) == IF x = NoneText THEN "" ELSE x

\* DELETE FROM tbl WHERE project_id = pid
DeleteKeepsAll(tbl, pid) == tbl
DeleteWherePid(tbl, pid) == SelectSeq(tbl, LAMBDA r : r.project_id # pid)

\* SELECT ... FROM tbl WHERE project_id = pid, in rowid order
RowsOf(tbl, pid) == SelectSeq(tbl, LAMBDA r : r.project_id = pid)

\* ORDER BY seq: ascending, NULL first; rows of equal seq stay in rowid
\* order, as SQLite's sorter leaves them
InsertBySeq(r, sorted) ==
    LET k == Cardinality({ i \in 1..Len(sorted) : sorted[i].seq <= r.seq })
    IN  SubSeq(sorted, 1, k) \o <<r>> \o SubSeq(sorted, k + 1, Len(sorted))

RECURSIVE OrderBySeq(_)
\* rows already in ascending seq are returned as they are
OrderBySeq(rows) ==
    IF \A i \in 1..(Len(rows) - 1) : rows[i].seq <= rows[i + 1].seq THEN rows
    ELSE InsertBySeq(rows[Len(rows)], OrderBySeq(SubSeq(rows, 1, Len(rows) - 1)))

(* ------------------------------ schema --------------------------------- *)
\* _create_tables on a new file: seven empty tables
EmptyDb ==
    [ projects          |-> <<>>,
      mes               |-> <<>>,
      assembly_drawings |-> <<>>,
      build_matrix      |-> <<>>,
      machine_matrix    |-> <<>>,
      handover_docs     |-> <<>>,
      checklist_items   |-> <<>>,
      sqlite_sequence   |-> [ projects |-> 0, handover_docs |-> 0,
                              checklist_items |-> 0 ] ]

\* the connection: its view and the durable content
Store(d, k) == [ db |-> d, disk |-> k ]

\* a call that returned ret after self.conn.commit() (or without writing)
Returned(d, k, ret) == [ db |-> d, disk |-> k, ok |-> TRUE, ret |-> ret ]

\* a call that raised: nothing is committed and nothing is rolled back by
\* the program; SQLite itself keeps the earlier statements of the open
\* transaction or, for some errors, rolls the whole transaction back
NoFault == [ at |-> 0, rolledBack |-> FALSE ]
Raised(S, partial, fault) ==
    [ db   |-> IF fault.rolledBack THEN S.disk ELSE partial,
      disk |-> S.disk, ok |-> FALSE, ret |-> NULL ]

\* faults of a method of n statements: none, or statement k raises
Faults(n) == { f \in [ at : 0..n, rolledBack : BOOLEAN ] :
                 f.at = 0 => ~f.rolledBack }

(* ------------------------------ projects ------------------------------- *)
\* SELECT * FROM projects WHERE project_name = ?  (fetchone: <<>> is None)
get_project_by_name(d, project_name) ==
    SelectSeq(d.projects, LAMBDA r : r.project_name = project_name)

\* SELECT project_name FROM projects WHERE product_name = ?
list_projects_for_product(d, product_name) ==
    { d.projects[i].project_name :
        i \in { j \in 1..Len(d.projects) : d.projects[j].product_name = product_name } }

\* project_id INTEGER PRIMARY KEY AUTOINCREMENT: one more than the largest
\* id the table has ever held
NextIdAfterLargestRow(d) ==
    IF d.projects = <<>> THEN 1
    ELSE d.projects[Len(d.projects)].project_id + 1
NextProjectId(d) == d.sqlite_sequence.projects + 1

InsertProject(d, product_name, project_name, details) ==
    LET pid == NextProjectId(d)
    IN  [ d EXCEPT
            !.projects = Append(@,
                [ project_id       |-> pid,
                  product_name     |-> product_name,
                  project_name     |-> project_name,
                  fg_part_number   |-> Get(details, "FG Part Number", ""),
                  pcba_part_number |-> Get(details, "PCBA Part Number", ""),
                  start_date       |-> Get(details, "Start Date", ""),
                  end_date         |-> Get(details, "End Date", ""),
                  bom_file         |-> Get(details, "BOM File", ""),
                  npi_engineer     |-> Get(details, "NPI Engineer", "") ]),
            !.sqlite_sequence.projects = pid ]

\* INSERT OR IGNORE INTO projects: project_name is UNIQUE, a row whose name
\* is taken is dropped without error
InsertOrIgnoreProject(d, product_name, project_name, details) ==
    IF get_project_by_name(d, project_name) # <<>>
    THEN d
    ELSE InsertProject(d, product_name, project_name, details)

\* the two loops of add_project that reach tables that exist; neither
\* INSERT names the seq column, so seq is NULL
AssemblyRowsOfDetails(pid, details) ==
    LET ds == Get(details, "Assembly Drawings", <<>>)
    IN  [ i \in 1..Len(ds) |->
            [ project_id       |-> pid,
              assembly_drawing |-> Get(ds[i], "Assembly Drawing", ""),
              drawing_name     |-> Get(ds[i], "Drawing Name", ""),
              seq              |-> NULL ] ]

BuildRowsOfDetails(pid, details) ==
    LET bs == Get(details, "Build Matrix", <<>>)
    IN  [ i \in 1..Len(bs) |->
            [ project_id |-> pid,
              component  |-> Get(bs[i], "Component", ""),
              make       |-> Get(bs[i], "Make", ""),
              seq        |-> NULL ] ]

\* DBManager.add_project(product_name, project_name, details)
add_project(S, product_name, project_name, details) ==
    LET d1  == InsertOrIgnoreProject(S.db, product_name, project_name, details)
        \* self.conn.commit() after the INSERT OR IGNORE
        S1  == Store(d1, d1)
        pid == get_project_by_name(d1, project_name)[1].project_id
        d2  == [ d1 EXCEPT
                   !.assembly_drawings = @ \o AssemblyRowsOfDetails(pid, details),
                   !.build_matrix      = @ \o BuildRowsOfDetails(pid, details) ]
    IN  IF Get(details, "MES Workflow", EmptyDict) # EmptyDict
        THEN \* INSERT INTO mes_workflow: no such table
             Raised(S1, d1, NoFault)
        ELSE IF Get(details, "Machine Program", <<>>) # <<>>
        THEN \* INSERT INTO machine_program: no such table
             Raised(S1, d2, NoFault)
        ELSE Returned(d2, d2, pid)

\* the six metadata columns of a projects row, set from the dict
WithDetails(r, details) ==
    [ r EXCEPT !.fg_part_number   = Get(details, "FG Part Number", ""),
               !.pcba_part_number = Get(details, "PCBA Part Number", ""),
               !.start_date       = Get(details, "Start Date", ""),
               !.end_date         = Get(details, "End Date", ""),
               !.bom_file         = Get(details, "BOM File", ""),
               !.npi_engineer     = Get(details, "NPI Engineer", "") ]

\* an UPDATE projects without its WHERE clause
UpdateEveryProject(S, project_name, details) ==
    LET d1 == [ S.db EXCEPT !.projects =
                  [ i \in 1..Len(@) |-> WithDetails(@[i], details) ] ]
    IN  Returned(d1, d1, NULL)

\* DBManager.update_project_details(project_name, details): UPDATE projects
\* SET the six columns WHERE project_name = ?, commit
update_project_details(S, project_name, details) ==
    LET d1 == [ S.db EXCEPT !.projects =
                  [ i \in 1..Len(@) |->
                      IF @[i].project_name = project_name
                      THEN WithDetails(@[i], details) ELSE @[i] ] ]
    IN  Returned(d1, d1, NULL)

\* the six DELETE statements of delete_project, in the order of the code
DeleteStatements == 6

DeleteProjectStatement(d, pid, k) ==
    CASE k = 1 -> [ d EXCEPT !.projects = DeleteWherePid(@, pid) ]
      [] k = 2 -> [ d EXCEPT !.mes = DeleteWherePid(@, pid) ]
      [] k = 3 -> [ d EXCEPT !.build_matrix = DeleteWherePid(@, pid) ]
      [] k = 4 -> [ d EXCEPT !.machine_matrix = DeleteWherePid(@, pid) ]
      [] k = 5 -> [ d EXCEPT !.handover_docs = DeleteWherePid(@, pid) ]
      [] k = 6 -> [ d EXCEPT !.checklist_items = DeleteWherePid(@, pid) ]

RECURSIVE DeleteProjectStatements(_, _, _)
\* the first n of them, applied in order
DeleteProjectStatements(d, pid, n) ==
    IF n = 0 THEN d
    ELSE DeleteProjectStatement(DeleteProjectStatements(d, pid, n - 1), pid, n)

\* DBManager.delete_project(project_name)
delete_project(S, project_name, fault) ==
    LET found == get_project_by_name(S.db, project_name)
        pid   == found[1].project_id
        done  == DeleteProjectStatements(S.db, pid, DeleteStatements)
    IN  IF found = <<>> THEN Returned(S.db, S.disk, NULL)
        ELSE IF fault.at = 0 THEN Returned(done, done, NULL)
        ELSE Raised(S, DeleteProjectStatements(S.db, pid, fault.at - 1), fault)

(* -------------------------------- mes ---------------------------------- *)
MesRow(project_id, mes) ==
    [ project_id     |-> project_id,
      lot_id         |-> Get(mes, "LOT ID", ""),
      workflow_smt   |-> Get(mes, "Workflow SMT - Name", ""),
      workflow_tla   |-> Get(mes, "Workflow TLA - Name", ""),
      smt_work_order |-> Get(mes, "SMT - Work Order", ""),
      tla_work_order |-> Get(mes, "TLA - Work Order", ""),
      work_order_qty |-> Get(mes, "Work Order Quantity", NoneText),
      po_number      |-> Get(mes, "PO NUMBER", ""),
      po_qty         |-> Get(mes, "PO Quantity", NoneText) ]

\* DBManager.save_mes(project_id, mes): DELETE, INSERT, commit
save_mes(S, project_id, mes, fault) ==
    LET deleted == [ S.db EXCEPT !.mes = DeleteWherePid(@, project_id) ]
        done    == [ deleted EXCEPT !.mes = Append(@, MesRow(project_id, mes)) ]
    IN  CASE fault.at = 0 -> Returned(done, done, NULL)
          [] fault.at = 1 -> Raised(S, S.db, fault)
          [] fault.at = 2 -> Raised(S, deleted, fault)

\* DBManager.get_mes(project_id): fetchone
get_mes(d, project_id) == RowsOf(d.mes, project_id)

(* ------------------------------ matrices ------------------------------- *)
\* enumerate(rows, start=1)
SeqFromZero(i) == i - 1
SeqOf(i) == i

BuildRows(project_id, rows) ==
    [ i \in 1..Len(rows) |->
        [ project_id |-> project_id,
          component  |-> OrEmpty(rows[i][1]),
          make       |-> OrEmpty(rows[i][2]),
          seq        |-> SeqOf(i) ] ]

AssemblyRows(project_id, rows) ==
    [ i \in 1..Len(rows) |->
        [ project_id       |-> project_id,
          assembly_drawing |-> OrEmpty(rows[i][1]),
          drawing_name     |-> OrEmpty(rows[i][2]),
          seq              |-> SeqOf(i) ] ]

MachineRows(project_id, rows) ==
    [ i \in 1..Len(rows) |->
        [ project_id   |-> project_id,
          machine_name |-> OrEmpty(rows[i][1]),
          program_name |-> OrEmpty(rows[i][2]),
          seq          |-> SeqOf(i) ] ]

\* DELETE the project's rows, then INSERT the new ones one statement each:
\* the table after the first n statements
ReplaceStatements(tbl, project_id, newRows, n) ==
    IF n = 0 THEN tbl
    ELSE DeleteWherePid(tbl, project_id) \o SubSeq(newRows, 1, n - 1)

\* DBManager.save_build_matrix(project_id, rows)
save_build_matrix(S, project_id, rows, fault) ==
    LET new  == BuildRows(project_id, rows)
        after(n) == [ S.db EXCEPT
                        !.build_matrix = ReplaceStatements(@, project_id, new, n) ]
    IN  IF fault.at = 0
        THEN Returned(after(Len(rows) + 1), after(Len(rows) + 1), NULL)
        ELSE Raised(S, after(fault.at - 1), fault)

\* DBManager.get_build_matrix(project_id)
get_build_matrix(d, project_id) ==
    LET rs == OrderBySeq(RowsOf(d.build_matrix, project_id))
    IN  [ i \in 1..Len(rs) |-> <<rs[i].component, rs[i].make>> ]

\* DBManager.save_assembly_drawings(project_id, rows)
save_assembly_drawings(S, project_id, rows, fault) ==
    LET new  == AssemblyRows(project_id, rows)
        after(n) == [ S.db EXCEPT
                        !.assembly_drawings = ReplaceStatements(@, project_id, new, n) ]
    IN  IF fault.at = 0
        THEN Returned(after(Len(rows) + 1), after(Len(rows) + 1), NULL)
        ELSE Raised(S, after(fault.at - 1), fault)

\* DBManager.get_assembly_drawings(project_id)
get_assembly_drawings(d, project_id) ==
    LET rs == OrderBySeq(RowsOf(d.assembly_drawings, project_id))
    IN  [ i \in 1..Len(rs) |-> <<rs[i].assembly_drawing, rs[i].drawing_name>> ]

\* DBManager.save_machine_matrix(project_id, rows)
save_machine_matrix(S, project_id, rows, fault) ==
    LET new  == MachineRows(project_id, rows)
        after(n) == [ S.db EXCEPT
                        !.machine_matrix = ReplaceStatements(@, project_id, new, n) ]
    IN  IF fault.at = 0
        THEN Returned(after(Len(rows) + 1), after(Len(rows) + 1), NULL)
        ELSE Raised(S, after(fault.at - 1), fault)

\* DBManager.get_machine_matrix(project_id)
get_machine_matrix(d, project_id) ==
    LET rs == OrderBySeq(RowsOf(d.machine_matrix, project_id))
    IN  [ i \in 1..Len(rs) |-> <<rs[i].machine_name, rs[i].program_name>> ]

(* --------------------------- handover docs ----------------------------- *)
\* an add_handover_doc that keeps one row per (project, category, path)
AddDocOnce(S, project_id, category, file_path) ==
    LET same == SelectSeq(S.db.handover_docs,
                    LAMBDA r : /\ r.project_id = project_id
                               /\ r.category = category
                               /\ r.file_path = file_path)
        id == S.db.sqlite_sequence.handover_docs + 1
        d1 == [ S.db EXCEPT
                  !.handover_docs = Append(@,
                      [ id |-> id, project_id |-> project_id,
                        category |-> category, file_path |-> file_path ]),
                  !.sqlite_sequence.handover_docs = id ]
    IN  IF same # <<>> THEN Returned(S.db, S.db, NULL) ELSE Returned(d1, d1, NULL)

\* DBManager.add_handover_doc(project_id, category, file_path)
add_handover_doc(S, project_id, category, file_path) ==
    LET id == S.db.sqlite_sequence.handover_docs + 1
        d1 == [ S.db EXCEPT
                  !.handover_docs = Append(@,
                      [ id |-> id, project_id |-> project_id,
                        category |-> category, file_path |-> file_path ]),
                  !.sqlite_sequence.handover_docs = id ]
    IN  Returned(d1, d1, NULL)

\* DBManager.get_handover_docs(project_id): ORDER BY category, id; the rows
\* of one category come in id order
get_handover_docs(d, project_id, category) ==
    SelectSeq(d.handover_docs,
              LAMBDA r : r.project_id = project_id /\ r.category = category)

\* DBManager.remove_handover_doc(doc_id)
remove_handover_doc(S, doc_id) ==
    LET d1 == [ S.db EXCEPT !.handover_docs = SelectSeq(@, LAMBDA r : r.id # doc_id) ]
    IN  Returned(d1, d1, NULL)

(* --------------------------- the Handover tab -------------------------- *)
\* HandoverTab.categories
categories ==
    { "Process Flow Chart", "PFMEA", "Control Plan", "Process Parameters", "SAP BOM",
      "Label Artwork", "Cycle Time Study", "Assembly Qualification Report",
      "Packaging Document", "WI", "SOP", "Stencil, Tools & Fixtures",
      "Lessons Learnt", "Other Documents" }

\* category.replace(" ", "_")
CategoryDir(category) ==
    CASE category = "Process Flow Chart" -> "Process_Flow_Chart"
      [] category = "Control Plan" -> "Control_Plan"
      [] category = "Process Parameters" -> "Process_Parameters"
      [] category = "SAP BOM" -> "SAP_BOM"
      [] category = "Label Artwork" -> "Label_Artwork"
      [] category = "Cycle Time Study" -> "Cycle_Time_Study"
      [] category = "Assembly Qualification Report" -> "Assembly_Qualification_Report"
      [] category = "Packaging Document" -> "Packaging_Document"
      [] category = "Stencil, Tools & Fixtures" -> "Stencil,_Tools_&_Fixtures"
      [] category = "Lessons Learnt" -> "Lessons_Learnt"
      [] category = "Other Documents" -> "Other_Documents"
      [] OTHER -> category

\* an item of a list: f"{id}::{path}" as load_docs_for_project writes it, or
\* the bare relative path as add_files writes it.  remove_selected reads the
\* id back with int(text.split("::", 1)[0]); a bare path starts with the
\* category directory, which is no number, so it reads back as no id
IdItem(id, path) == [ id |-> id, path |-> path ]
PathItem(path) == [ id |-> NULL, path |-> path ]

\* HandoverTab.load_docs_for_project(project_id): every list is cleared and
\* filled from the catalog; a row of a category without a list is skipped
load_docs_for_project(d, project_id) ==
    [ c \in categories |->
        LET rows == get_handover_docs(d, project_id, c)
        IN  [ i \in 1..Len(rows) |-> IdItem(rows[i].id, rows[i].file_path) ] ]

\* text.replace(" ", "_") on the texts of the model: "Widget A" is the one
\* name that holds a blank
replace_blanks(text) ==
    CASE text = "Widgets_Widget A" -> "Widgets_Widget_A"
      [] text = "Gadgets_Widget A" -> "Gadgets_Widget_A"
      [] OTHER -> text

\* the directory name of a (product, project) pair:
\* f"{product}_{project}".replace(" ", "_")
safe(product, project) == replace_blanks(product \o "_" \o project)

\* NPIProjectManager.get_current_project_dir: "" is None; the directory is
\* created under <cwd>/Projects if it is missing
get_current_project_dir ==
    IF current_product = "" \/ current_project = "" THEN ""
    ELSE safe(current_product, current_project)

\* self.parent() of the HandoverTab: the tab is built without a parent and
\* handed to QTabWidget.addTab, which makes the tab widget's inner
\* QStackedWidget its parent, a widget without an attribute db
ParentHasDb == FALSE

\* a loop body that catalogs the file before it is known to have copied
AddFileCatalogFirst(prev, project_id, proj_dir, category, f, i) ==
    LET rel    == CategoryDir(category) \o "/" \o f.name
        S1     == IF project_id = NULL \/ ~f.catalogs THEN prev.S
                  ELSE add_handover_doc(prev.S, project_id, category, rel)
        failed == ~f.copies \/ (project_id # NULL /\ ~f.catalogs)
    IN  [ S        |-> S1,
          lists    |-> IF f.copies
                       THEN [ prev.lists EXCEPT
                                ![category] = Append(@, PathItem(rel)) ]
                       ELSE prev.lists,
          fs       |-> IF f.copies THEN prev.fs \cup { <<proj_dir, rel>> }
                       ELSE prev.fs,
          reported |-> IF failed THEN Append(prev.reported, f.name)
                       ELSE prev.reported,
          progress |-> i ]

\* a loop body after whose first failure the rest of the batch is skipped
AddFileAborting(prev, project_id, proj_dir, category, f, i) ==
    LET rel == CategoryDir(category) \o "/" \o f.name
        S1  == IF project_id = NULL THEN prev.S
               ELSE add_handover_doc(prev.S, project_id, category, rel)
        copied == [ prev EXCEPT
                      !.lists[category] = Append(@, PathItem(rel)),
                      !.fs = @ \cup { <<proj_dir, rel>> } ]
    IN  IF prev.reported # <<>> THEN prev
        ELSE IF ~f.copies
        THEN [ prev EXCEPT !.reported = Append(@, f.name), !.progress = i ]
        ELSE IF project_id # NULL /\ ~f.catalogs
        THEN [ copied EXCEPT !.reported = Append(@, f.name), !.progress = i ]
        ELSE [ copied EXCEPT !.S = S1, !.progress = i ]

\* the body of the loop of add_files for the i-th chosen file f, inside its
\* own try: copy2, then addItem of the bare relative path, then, if the
\* current project has a row, add_handover_doc.  Whichever of them raises,
\* the rest of the body is skipped and the file is reported ("Copy Error");
\* progress.setValue(i) follows in every case
add_file(prev, project_id, proj_dir, category, f, i) ==
    LET rel == CategoryDir(category) \o "/" \o f.name
        S1  == IF project_id = NULL THEN prev.S
               ELSE add_handover_doc(prev.S, project_id, category, rel)
        copied == [ prev EXCEPT
                      !.lists[category] = Append(@, PathItem(rel)),
                      !.fs = @ \cup { <<proj_dir, rel>> } ]
    IN  IF ~f.copies
        THEN [ prev EXCEPT !.reported = Append(@, f.name), !.progress = i ]
        ELSE IF project_id # NULL /\ ~f.catalogs
        THEN [ copied EXCEPT !.reported = Append(@, f.name), !.progress = i ]
        ELSE [ copied EXCEPT !.S = S1, !.progress = i ]

\* the loop of add_files over the first n chosen files
RECURSIVE add_files_loop(_, _, _, _, _, _)
add_files_loop(st, project_id, proj_dir, category, files, n) ==
    IF n = 0 THEN st
    ELSE add_file(add_files_loop(st, project_id, proj_dir, category, files, n - 1),
                  project_id, proj_dir, category, files[n], n)

\* HandoverTab.add_files(category, list_widget) with the files picked in the
\* dialog
add_files(S, category, files) ==
    LET proj_dir   == get_current_project_dir
        proj_row   == get_project_by_name(S.db, current_project)
        project_id == IF current_project = "" \/ proj_row = <<>> THEN NULL
                      ELSE proj_row[1].project_id
        st0 == [ S |-> Returned(S.db, S.disk, NULL),
                 lists |-> lists_widgets, fs |-> fs,
                 reported |-> <<>>, progress |-> 0 ]
    IN  IF files = <<>> \/ proj_dir = "" THEN [ st0 EXCEPT !.S.ok = FALSE ]
        ELSE add_files_loop(st0, project_id, proj_dir, category, files, Len(files))

\* the sequence without its i-th element (QListWidget.takeItem)
TakeItem(items, i) == SubSeq(items, 1, i - 1) \o SubSeq(items, i + 1, Len(items))

\* DELETE FROM handover_docs WHERE project_id=? AND file_path=?, commit
DeleteDocsByPath(S, project_id, file_path) ==
    LET d1 == [ S.db EXCEPT !.handover_docs =
                  SelectSeq(@, LAMBDA r : ~(r.project_id = project_id
                                            /\ r.file_path = file_path)) ]
    IN  Returned(d1, d1, NULL)

\* HandoverTab.remove_selected(list_widget, category) with the i-th item of
\* the list selected (a QListWidget selects one item).  With a project
\* directory the lookup self.parent().db raises AttributeError before any
\* item is taken; the lookup is by os.path.basename(proj_dir), the
\* directory's name, not by the project's name
remove_selected(S, category, i) ==
    LET proj_dir   == get_current_project_dir
        item       == lists_widgets[category][i]
        proj_row   == get_project_by_name(S.db, proj_dir)
        project_id == IF proj_dir = "" \/ proj_row = <<>> THEN NULL
                      ELSE proj_row[1].project_id
        taken      == [ lists_widgets EXCEPT ![category] = TakeItem(@, i) ]
    IN  IF proj_dir # "" /\ ~ParentHasDb
        THEN [ S |-> Raised(S, S.db, NoFault), lists |-> lists_widgets ]
        ELSE IF item.id # NULL
        THEN [ S |-> remove_handover_doc(S, item.id), lists |-> taken ]
        ELSE IF project_id # NULL
        THEN [ S |-> DeleteDocsByPath(S, project_id, item.path), lists |-> taken ]
        ELSE [ S |-> Returned(S.db, S.disk, NULL), lists |-> taken ]

\* no ZIP written yet
NoArchive == [ path |-> "", entries |-> <<>> ]

\* no report generated yet, or the last _generate_project_pdf returned False
NoReport == [ ok |-> FALSE, summary |-> <<>>, build_matrix |-> <<>> ]

\* QListWidgetItem.text() of an item: "id::path" when loaded from the
\* catalog, the bare path when added by add_files
ItemText(item) ==
    IF item.id = NULL THEN item.path ELSE ToString(item.id) \o "::" \o item.path

\* the file_path column of rows, in order
PathsOf(rows) == [ i \in 1..Len(rows) |-> rows[i].file_path ]

\* HandoverTab._generate_project_pdf: True and the Build Matrix section and
\* the Documents Summary of the report written, or False.  Everything runs inside one try; the report is
\* written by doc.build at its end.  With a project directory the lookup
\* self.parent().db raises AttributeError, which the except turns into
\* False before anything is written
generate_project_pdf(S, report_fails) ==
    LET proj_dir   == get_current_project_dir
        proj_row   == get_project_by_name(S.db, proj_dir)
        project_id == IF proj_dir = "" \/ proj_row = <<>> THEN NULL
                      ELSE proj_row[1].project_id
        from_db    == [ c \in categories |->
                          PathsOf(get_handover_docs(S.db, project_id, c)) ]
        from_lists == [ c \in categories |->
                          [ i \in 1..Len(lists_widgets[c]) |->
                              ItemText(lists_widgets[c][i]) ] ]
    IN  IF (proj_dir # "" /\ ~ParentHasDb) \/ report_fails
        THEN NoReport
        ELSE [ ok |-> TRUE,
               summary |-> IF project_id # NULL THEN from_db ELSE from_lists,
               \* one line per pair that get_project_info() returns: the
               \* TABLE_ROWS rows of the Project tab's table, blank ones too
               build_matrix |-> form.build_matrix_table ]

\* one listing order of a set of files (os.walk)
RECURSIVE os_walk(_)
os_walk(files) ==
    IF files = {} THEN <<>>
    ELSE LET f == CHOOSE f \in files : TRUE
         IN  <<f>> \o os_walk(files \ {f})

\* arc = os.path.relpath(full, os.path.dirname(proj_dir)) of the file rel
\* under the project directory
ArcInsideProject(proj_dir, rel) == rel
ArcName(proj_dir, rel) == proj_dir \o "/" \o rel

\* a perform_handover that catalogs the sheet it exported
BomStepCataloging(st, proj_dir, chosen_bom, bom) ==
    IF chosen_bom = "" THEN st
    ELSE [ st EXCEPT
             !.S   = add_handover_doc(st.S, 1, "SAP BOM", chosen_bom \o ".xlsx"),
             !.fs  = IF bom = "fails" THEN @
                     ELSE @ \cup { <<proj_dir, chosen_bom \o ".xlsx">> },
             !.log = IF bom = "exported" THEN Append(@, "bom_export")
                     ELSE @ \o <<"bom_export", "bom_warning">> ]

\* perform_handover, the BOM export: only if a sheet was chosen; read_excel
\* or the writer may raise, with or without a workbook left behind, and the
\* except only warns
bom_step(st, proj_dir, chosen_bom, bom) ==
    IF chosen_bom = "" THEN st
    ELSE [ st EXCEPT
             !.fs  = IF bom = "fails" THEN @
                     ELSE @ \cup { <<proj_dir, chosen_bom \o ".xlsx">> },
             !.log = IF bom = "exported" THEN Append(@, "bom_export")
                     ELSE @ \o <<"bom_export", "bom_warning">> ]

\* a perform_handover that gives up when the report fails
ReportStepAborting(st, proj_dir, report_fails) ==
    LET R == generate_project_pdf(st.S, report_fails)
    IN  [ st EXCEPT
            !.fs     = IF R.ok THEN @ \cup { <<proj_dir, "Project_Report.pdf">> }
                       ELSE @,
            !.report = R,
            !.done   = ~R.ok,
            !.log    = IF R.ok THEN Append(@, "report")
                       ELSE @ \o <<"report", "pdf_warning">> ]

\* perform_handover, the report: _generate_project_pdf once; False only
\* warns
report_step(st, proj_dir, report_fails) ==
    LET R == generate_project_pdf(st.S, report_fails)
    IN  [ st EXCEPT
            !.fs     = IF R.ok THEN @ \cup { <<proj_dir, "Project_Report.pdf">> }
                       ELSE @,
            !.report = R,
            !.log    = IF R.ok THEN Append(@, "report")
                       ELSE @ \o <<"report", "pdf_warning">> ]

\* perform_handover, the ZIP: the save dialog (save_path = "": Cancel; a
\* path outside the project directory otherwise), then one entry per file
\* that os.walk finds under the project directory; zip_fault = k > 0: the
\* k-th write raises and the ZIP keeps the entries written before
zip_step(st, proj_dir, save_path, zip_fault) ==
    LET found == os_walk({ f \in st.fs : f[1] = proj_dir })
        all   == [ i \in 1..Len(found) |-> ArcName(proj_dir, found[i][2]) ]
        n     == IF zip_fault - 1 < Len(all) THEN zip_fault - 1 ELSE Len(all)
    IN  IF st.done THEN st
        ELSE IF save_path = ""
        THEN [ st EXCEPT !.log = Append(@, "save_cancelled") ]
        ELSE IF zip_fault = 0
        THEN [ st EXCEPT !.ok = TRUE,
                         !.archive = [ path |-> save_path, entries |-> all ],
                         !.log = @ \o <<"zip", "handover_created">> ]
        ELSE [ st EXCEPT !.archive = [ path |-> save_path,
                                       entries |-> SubSeq(all, 1, n) ],
                         !.log = @ \o <<"zip", "zip_error">> ]

\* HandoverTab.perform_handover with what the dialogs return (chosen_bom =
\* "": no workbook, no sheet or Cancel) and what the file system does
perform_handover(S, chosen_bom, bom, report_fails, save_path, zip_fault) ==
    LET proj_dir == get_current_project_dir
        st0 == [ S |-> Returned(S.db, S.disk, NULL), fs |-> fs,
                 archive |-> archive,
                 log |-> IF chosen_bom = "" THEN <<>> ELSE <<"sheet_chosen">>,
                 ok |-> FALSE, done |-> FALSE, report |-> report ]
    IN  IF proj_dir = ""
        THEN [ st0 EXCEPT !.log = <<"warning_no_project">> ]
        ELSE zip_step(report_step(bom_step(st0, proj_dir, chosen_bom, bom),
                                  proj_dir, report_fails),
                      proj_dir, save_path, zip_fault)

(* ------------------------------ checklist ------------------------------ *)
\* ChecklistTab.template: the dict in insertion order (its 42 keys differ)
Template ==
    << [ item_name |-> "Design Record (BOM & 3D/2D Drawings)",
         completed |-> FALSE, person |-> "SANTHOSH", reference |-> "" ],
       [ item_name |-> "Engineering Change Notice",
         completed |-> FALSE, person |-> "ADITYA", reference |-> "" ],
       [ item_name |-> "Customer Engineering Approval",
         completed |-> FALSE, person |-> "TPM", reference |-> "" ],
       [ item_name |-> "Process Flow Diagram",
         completed |-> FALSE, person |-> "SIVA/ JHON", reference |-> "" ],
       [ item_name |-> "Process FMEA",
         completed |-> FALSE, person |-> "SIVA/ JHON", reference |-> "" ],
       [ item_name |-> "Control Plan",
         completed |-> FALSE, person |-> "SIVA/ JHON", reference |-> "" ],
       [ item_name |-> "MSA Plan and report",
         completed |-> FALSE, person |-> "SIVA/ JHON", reference |-> "" ],
       [ item_name |-> "Dimensional Results",
         completed |-> FALSE, person |-> "SANTHOSH", reference |-> "" ],
       [ item_name |-> "Material / Performance Result",
         completed |-> FALSE, person |-> "SUPPLIER - CONFORMANCE REPORT", reference |-> "" ],
       [ item_name |-> "Initial Process Study plan and report",
         completed |-> FALSE, person |-> "", reference |-> "" ],
       [ item_name |-> "Qualified Laboratory Documentation",
         completed |-> FALSE, person |-> "", reference |-> "" ],
       [ item_name |-> "Appearance Approval Report (IF APPLICABLE)",
         completed |-> FALSE, person |-> "", reference |-> "" ],
       [ item_name |-> "Sample Production Parts",
         completed |-> FALSE, person |-> "SANTHOSH", reference |-> "" ],
       [ item_name |-> "Record of Compliance",
         completed |-> FALSE, person |-> "SILAMBARASAN", reference |-> "" ],
       [ item_name |-> "Part Submission Warrant",
         completed |-> FALSE, person |-> "", reference |-> "" ],
       [ item_name |-> "IMDS Data",
         completed |-> FALSE, person |-> "SILAMBARASAN", reference |-> "" ],
       [ item_name |-> "Packaging Requirements",
         completed |-> FALSE, person |-> "VIGNESH/ PREM", reference |-> "" ],
       [ item_name |-> "Warranty period sign off",
         completed |-> FALSE, person |-> "", reference |-> "" ],
       [ item_name |-> "Child parts drawing in DCC",
         completed |-> FALSE, person |-> "", reference |-> "" ],
       [ item_name |-> "Process drawing in DCC",
         completed |-> FALSE, person |-> "", reference |-> "" ],
       [ item_name |-> "Child parts SIR clearance",
         completed |-> FALSE, person |-> "", reference |-> "" ],
       [ item_name |-> "Fixtures and Tooling status",
         completed |-> FALSE, person |-> "KRISHNA PRASAD", reference |-> "" ],
       [ item_name |-> "Fixtures and Tooling validation report",
         completed |-> FALSE, person |-> "KRISHNA PRASAD", reference |-> "" ],
       [ item_name |-> "Test machine, Program verification & validation report",
         completed |-> FALSE, person |-> "SOMASHEKAR", reference |-> "" ],
       [ item_name |-> "Reference Master Sample",
         completed |-> FALSE, person |-> "SANTHOSH", reference |-> "" ],
       [ item_name |-> "SOP",
         completed |-> FALSE, person |-> "SIVA/ JHON", reference |-> "" ],
       [ item_name |-> "Customer feedback report of proto samples / outline drawing submitted",
         completed |-> FALSE, person |-> "TPM", reference |-> "" ],
       [ item_name |-> "Reliability and Temperature Test - PV",
         completed |-> FALSE, person |-> "", reference |-> "" ],
       [ item_name |-> "Is the manufacturing layout been reviewed to manufacture the product ?",
         completed |-> FALSE, person |-> "DEEPAK", reference |-> "" ],
       [ item_name |-> "Has the supplier Assessment been completed",
         completed |-> FALSE, person |-> "SDE", reference |-> "" ],
       [ item_name |-> "Child part agreement of Inspection (AOI)",
         completed |-> FALSE, person |-> "", reference |-> "" ],
       [ item_name |-> "Manufacturing equipments & their control facilities",
         completed |-> FALSE, person |-> "", reference |-> "" ],
       [ item_name |-> "Special process details",
         completed |-> FALSE, person |-> "", reference |-> "" ],
       [ item_name |-> "Master list of machine PM and calibration",
         completed |-> FALSE, person |-> "PRABHU", reference |-> "" ],
       [ item_name |-> "Intimation for PPAP",
         completed |-> FALSE, person |-> "NPI", reference |-> "" ],
       [ item_name |-> "Updated PPAP time line plan",
         completed |-> FALSE, person |-> "TPM", reference |-> "" ],
       [ item_name |-> "Manufacturing feasibility",
         completed |-> FALSE, person |-> "", reference |-> "" ],
       [ item_name |-> "Run @ rate - PPAP Quantity",
         completed |-> FALSE, person |-> "DEEPAK", reference |-> "" ],
       [ item_name |-> "CSR - Customer Specific Requirement",
         completed |-> FALSE, person |-> "", reference |-> "" ],
       [ item_name |-> "Safe launch",
         completed |-> FALSE, person |-> "SANTHOSH", reference |-> "" ],
       [ item_name |-> "Supplier Master List",
         completed |-> FALSE, person |-> "SANTHOSH", reference |-> "" ],
       [ item_name |-> "Lesson Learnt",
         completed |-> FALSE, person |-> "SANTHOSH", reference |-> "" ] >>

\* int(entry.get("completed", False))
IntOfBool(b) == IF b THEN 1 ELSE 0

\* the rows initialize_checklist inserts: one per template entry, in the
\* order of the dict, seq counted from 1, ids from AUTOINCREMENT
ChecklistRows(project_id, template, firstId) ==
    [ i \in 1..Len(template) |->
        [ id         |-> firstId + i - 1,
          project_id |-> project_id,
          item_name  |-> template[i].item_name,
          completed  |-> IntOfBool(template[i].completed),
          person     |-> template[i].person,
          reference  |-> template[i].reference,
          seq        |-> SeqOf(i) ] ]

\* SELECT COUNT(*) FROM checklist_items WHERE project_id = ?
CountAlwaysZero(d, project_id) == 0
ChecklistCount(d, project_id) == Len(RowsOf(d.checklist_items, project_id))

\* DBManager.initialize_checklist(project_id, template); the commit is
\* inside the if
initialize_checklist(S, project_id, template) ==
    LET first == S.db.sqlite_sequence.checklist_items + 1
        d1 == [ S.db EXCEPT
                  !.checklist_items = @ \o ChecklistRows(project_id, template, first),
                  !.sqlite_sequence.checklist_items =
                      IF template = <<>> THEN @ ELSE @ + Len(template) ]
    IN  IF ChecklistCount(S.db, project_id) = 0
        THEN Returned(d1, d1, NULL)
        ELSE Returned(S.db, S.disk, NULL)

\* an update that flips the item instead of setting it
ToggleChecklistItem(S, item_id, completed, person, reference) ==
    LET d1 == [ S.db EXCEPT !.checklist_items =
                  [ i \in 1..Len(@) |->
                      IF @[i].id = item_id
                      THEN [ @[i] EXCEPT !.completed = 1 - @,
                                         !.person = person,
                                         !.reference = reference ]
                      ELSE @[i] ] ]
    IN  Returned(d1, d1, NULL)

\* DBManager.get_checklist(project_id)
get_checklist(d, project_id) == OrderBySeq(RowsOf(d.checklist_items, project_id))

\* DBManager.update_checklist_item(item_id, completed, person, reference):
\* UPDATE ... WHERE id = ?, which matches no row or one, then commit
UpdateEveryItem(S, item_id, completed, person, reference) ==
    LET d1 == [ S.db EXCEPT !.checklist_items =
                  [ i \in 1..Len(@) |->
                      [ @[i] EXCEPT !.completed = completed,
                                    !.person = person,
                                    !.reference = reference ] ] ]
    IN  Returned(d1, d1, NULL)
update_checklist_item(S, item_id, completed, person, reference) ==
    LET d1 == [ S.db EXCEPT !.checklist_items =
                  [ i \in 1..Len(@) |->
                      IF @[i].id = item_id
                      THEN [ @[i] EXCEPT !.completed = completed,
                                         !.person = person,
                                         !.reference = reference ]
                      ELSE @[i] ] ]
    IN  Returned(d1, d1, NULL)

(* ------------------------- the Project tab ----------------------------- *)
TABLE_ROWS == 9
ASSEMBLY_ROWS == 9
MACHINE_ROWS == 9

\* NPIProjectManager.details_fields and mes_fields
details_fields ==
    { "Project Name", "FG Part Number", "PCBA Part Number", "Start Date",
      "End Date", "BOM File", "NPI Engineer" }
mes_fields ==
    { "LOT ID", "Workflow SMT - Name", "Workflow TLA - Name", "SMT - Work Order",
      "TLA - Work Order", "Work Order Quantity", "PO NUMBER", "PO Quantity" }

\* the first n rows of a QTableWidget as text pairs; a cell without an item
\* reads as ""
TableOf(pairs, n) ==
    [ i \in 1..n |-> IF i <= Len(pairs) THEN pairs[i] ELSE <<"", "">> ]

\* _build_ui: empty line edits, tables without items; the line edits are
\* read-only and the Update Project button is disabled (unlocked is FALSE)
EmptyForm ==
    [ details_entries       |-> [ f \in details_fields |-> "" ],
      mes_entries           |-> [ f \in mes_fields |-> "" ],
      build_matrix_table    |-> TableOf(<<>>, TABLE_ROWS),
      assembly_table        |-> TableOf(<<>>, ASSEMBLY_ROWS),
      machine_program_table |-> TableOf(<<>>, MACHINE_ROWS),
      unlocked              |-> FALSE ]

\* QComboBox.currentText(): an item of the box, "" when it has none
CurrentTexts(dropdown) == IF dropdown = {} THEN {""} ELSE dropdown

\* view_project, the branch that found the project row: the form as loaded
LoadedForm(d, proj_row) ==
    LET pid == proj_row.project_id
        m   == get_mes(d, pid)
    IN  [ details_entries |->
            [ f \in details_fields |->
                CASE f = "Project Name"     -> proj_row.project_name
                  [] f = "FG Part Number"   -> proj_row.fg_part_number
                  [] f = "PCBA Part Number" -> proj_row.pcba_part_number
                  [] f = "Start Date"       -> proj_row.start_date
                  [] f = "End Date"         -> proj_row.end_date
                  [] f = "BOM File"         -> proj_row.bom_file
                  [] f = "NPI Engineer"     -> proj_row.npi_engineer ],
          mes_entries |->
            IF m = <<>> THEN form.mes_entries
            ELSE [ f \in mes_fields |->
                CASE f = "LOT ID"              -> OrEmpty(m[1].lot_id)
                  [] f = "Workflow SMT - Name" -> OrEmpty(m[1].workflow_smt)
                  [] f = "Workflow TLA - Name" -> OrEmpty(m[1].workflow_tla)
                  [] f = "SMT - Work Order"    -> OrEmpty(m[1].smt_work_order)
                  [] f = "TLA - Work Order"    -> OrEmpty(m[1].tla_work_order)
                  [] f = "Work Order Quantity" -> OrEmpty(m[1].work_order_qty)
                  [] f = "PO NUMBER"           -> OrEmpty(m[1].po_number)
                  [] f = "PO Quantity"         -> OrEmpty(m[1].po_qty) ],
          build_matrix_table    |-> TableOf(get_build_matrix(d, pid), TABLE_ROWS),
          assembly_table        |-> TableOf(get_assembly_drawings(d, pid), ASSEMBLY_ROWS),
          machine_program_table |-> TableOf(get_machine_matrix(d, pid), MACHINE_ROWS),
          unlocked              |-> form.unlocked ]

\* ChecklistTab.load_for_project(project_id): its write to the store
load_for_project(S, project_id) == initialize_checklist(S, project_id, Template)

\* NPIProjectManager.add_project from db.add_project to initialize_checklist:
\* the row dict holds the line edits' texts under their labels, which are
\* none of the nested keys, and the three tables are saved whole
npi_add_project_store(S, proj) ==
    LET row == form.details_entries @@ form.mes_entries
        r1  == add_project(S, current_product, proj, row)
        pid == r1.ret
        r2  == save_mes(r1, pid, form.mes_entries, NoFault)
        r3  == save_assembly_drawings(r2, pid, form.assembly_table, NoFault)
        r4  == save_build_matrix(r3, pid, form.build_matrix_table, NoFault)
        r5  == save_machine_matrix(r4, pid, form.machine_program_table, NoFault)
        r6  == initialize_checklist(r5, pid, Template)
    IN  [ r6 EXCEPT !.ret = pid ]

\* str.strip() of the texts typed into the password dialog
strip(text) == IF text = " vvs18 " THEN "vvs18" ELSE text

\* NPIProjectManager.enable_editing with the dialog's text and OK flag: the
\* line edits stop being read-only and the Update Project button is enabled
\* if the dialog was accepted with the password, else nothing changes
enable_editing(pwd, ok) ==
    IF ~ok \/ strip(pwd) # "vvs18" THEN form
    ELSE [ form EXCEPT !.unlocked = TRUE ]

\* NPIProjectManager.update_project past its first check, up to the last
\* save: the details of the line edits, then, if the current project has a
\* row, its workflow and the three tables saved whole
update_project(S) ==
    LET r1  == update_project_details(S, current_project, form.details_entries)
        proj_row == get_project_by_name(r1.db, current_project)
        pid == proj_row[1].project_id
        r2  == save_mes(r1, pid, form.mes_entries, NoFault)
        r3  == save_build_matrix(r2, pid, form.build_matrix_table, NoFault)
        r4  == save_machine_matrix(r3, pid, form.machine_program_table, NoFault)
        r5  == save_assembly_drawings(r4, pid, form.assembly_table, NoFault)
    IN  IF proj_row = <<>> THEN r1 ELSE [ r5 EXCEPT !.ret = pid ]

(* ---------------------------- the actions ------------------------------ *)
\* what a call hands back, and the project id it worked on
Outcome(op, ok, pid) == [ op |-> op, ok |-> ok, pid |-> pid ]

ProjectIds(d) == { d.projects[i].project_id : i \in 1..Len(d.projects) }

NullSeqRows(tbl) == Len(SelectSeq(tbl, LAMBDA r : r.seq = NULL))

\* the store after a call of a DBManager method
Call(R, op, pid, fault) ==
    /\ fault.at # 0 => faults < MaxFaults
    /\ faults' = IF fault.at # 0 THEN faults + 1 ELSE faults
    /\ db' = R.db
    /\ disk' = R.disk
    /\ last' = Outcome(op, R.ok, pid)
    /\ assigned' = assigned \cup ProjectIds(R.db)

ProjectIdOf(d, project_name) ==
    IF get_project_by_name(d, project_name) = <<>> THEN NULL
    ELSE get_project_by_name(d, project_name)[1].project_id

AddProject(product_name, project_name, details) ==
    LET R == add_project(Store(db, disk), product_name, project_name, details)
    IN  /\ \/ db.sqlite_sequence.projects < MaxProjects
           \/ get_project_by_name(db, project_name) # <<>>
        /\ NullSeqRows(R.db.assembly_drawings) <= MaxNullRows
        /\ NullSeqRows(R.db.build_matrix) <= MaxNullRows
        /\ Call(R, "add_project", ProjectIdOf(R.db, project_name), NoFault)
        /\ UNCHANGED uiVars

UpdateProjectDetails(project_name, details) ==
    /\ Call(update_project_details(Store(db, disk), project_name, details),
            "update_project_details", ProjectIdOf(db, project_name), NoFault)
    /\ UNCHANGED uiVars

DeleteProject(project_name, fault) ==
    /\ Call(delete_project(Store(db, disk), project_name, fault),
            "delete_project", ProjectIdOf(db, project_name), fault)
    /\ UNCHANGED uiVars

SaveMes(project_id, mes, fault) ==
    /\ Call(save_mes(Store(db, disk), project_id, mes, fault), "save_mes", project_id, fault)
    /\ UNCHANGED uiVars

SaveBuildMatrix(project_id, rows, fault) ==
    /\ Call(save_build_matrix(Store(db, disk), project_id, rows, fault),
            "save_build_matrix", project_id, fault)
    /\ UNCHANGED uiVars

SaveAssemblyDrawings(project_id, rows, fault) ==
    /\ Call(save_assembly_drawings(Store(db, disk), project_id, rows, fault),
            "save_assembly_drawings", project_id, fault)
    /\ UNCHANGED uiVars

SaveMachineMatrix(project_id, rows, fault) ==
    /\ Call(save_machine_matrix(Store(db, disk), project_id, rows, fault),
            "save_machine_matrix", project_id, fault)
    /\ UNCHANGED uiVars

AddHandoverDoc(project_id, category, file_path) ==
    /\ db.sqlite_sequence.handover_docs < MaxDocs
    /\ Call(add_handover_doc(Store(db, disk), project_id, category, file_path),
            "add_handover_doc", project_id, NoFault)
    /\ UNCHANGED uiVars

InitializeChecklist(project_id) ==
    /\ \/ db.sqlite_sequence.checklist_items < MaxSeedings * Len(Template)
       \/ ChecklistCount(db, project_id) > 0
    /\ Call(initialize_checklist(Store(db, disk), project_id, Template),
            "initialize_checklist", project_id, NoFault)
    /\ UNCHANGED uiVars

UpdateChecklistItem(item_id, completed, person, reference) ==
    /\ Call(update_checklist_item(Store(db, disk), item_id, completed, person, reference),
            "update_checklist_item", NULL, NoFault)
    /\ UNCHANGED uiVars

\* NPIProjectManager.add_product: the typed name joins the combo box
AddProduct(prod) ==
    /\ product_dropdown' = product_dropdown \cup {prod}
    /\ last' = Outcome("add_product", TRUE, NULL)
    /\ UNCHANGED <<db, disk, faults, assigned, current_product, current_project,
                   project_dropdown, form, handoverVars>>

\* NPIProjectManager.confirm_product, then load_projects_for_product
ConfirmProduct(prod) ==
    /\ prod \in CurrentTexts(product_dropdown)
    /\ current_product' = prod
    /\ project_dropdown' =
         IF prod = "" THEN project_dropdown
         ELSE list_projects_for_product(db, prod)
    /\ last' = Outcome("confirm_product", prod # "", NULL)
    /\ UNCHANGED <<db, disk, faults, assigned, current_project, product_dropdown, form,
                   handoverVars>>

\* NPIProjectManager.add_project with the name typed into the dialog
NpiAddProject(proj) ==
    LET R == npi_add_project_store(Store(db, disk), proj)
    IN  /\ current_product # ""
        /\ \/ db.sqlite_sequence.projects < MaxProjects
           \/ get_project_by_name(db, proj) # <<>>
        /\ \/ db.sqlite_sequence.checklist_items < MaxSeedings * Len(Template)
           \/ ChecklistCount(db, ProjectIdOf(db, proj)) > 0
        /\ Call(R, "npi_add_project", R.ret, NoFault)
        /\ project_dropdown' = list_projects_for_product(R.db, current_product)
        /\ UNCHANGED <<current_product, current_project, product_dropdown, form,
                       handoverVars>>

\* NPIProjectManager.view_project with the two combo boxes' current texts
ViewProject(prod, proj) ==
    LET found == get_project_by_name(db, proj)
        pid   == found[1].project_id
        R     == load_for_project(Store(db, disk), pid)
    IN  /\ prod \in CurrentTexts(product_dropdown)
        /\ proj \in CurrentTexts(project_dropdown)
        /\ current_project' = proj
        /\ current_product' = prod
        /\ UNCHANGED <<product_dropdown, project_dropdown, fs, archive, handover_log,
                       report>>
        /\ IF prod = "" \/ proj = "" \/ found = <<>>
           THEN \* a warning, or read_excel of the missing workbook raises
                /\ last' = Outcome("view_project", FALSE, NULL)
                /\ UNCHANGED <<db, disk, faults, assigned, form, lists_widgets>>
           ELSE /\ \/ db.sqlite_sequence.checklist_items < MaxSeedings * Len(Template)
                   \/ ChecklistCount(db, pid) > 0
                /\ form' = LoadedForm(db, found[1])
                /\ lists_widgets' = load_docs_for_project(db, pid)
                /\ Call(R, "view_project", pid, NoFault)

\* NPIProjectManager.enable_editing (the Edit Project button)
EnableEditing(pwd, ok) ==
    /\ form' = enable_editing(pwd, ok)
    /\ last' = Outcome("enable_editing", ok /\ strip(pwd) = "vvs18", NULL)
    /\ UNCHANGED <<db, disk, faults, assigned, current_product, current_project,
                   product_dropdown, project_dropdown, handoverVars>>

\* NPIProjectManager.update_project (the Update Project button, which can be
\* clicked only while it is enabled)
UpdateProject ==
    LET R == update_project(Store(db, disk))
    IN  /\ form.unlocked
        /\ IF current_product = "" \/ current_project = ""
           THEN /\ last' = Outcome("update_project", FALSE, NULL)
                /\ UNCHANGED <<db, disk, faults, assigned, form>>
           ELSE /\ Call(R, "update_project", R.ret, NoFault)
                /\ form' = [ form EXCEPT !.unlocked = FALSE ]
        /\ UNCHANGED <<current_product, current_project, product_dropdown,
                       project_dropdown, handoverVars>>

\* the user types a pair into the first row of the Build Matrix table: the
\* table is a plain QTableWidget whose cells are editable from the start
EditBuildMatrixTable(pair) ==
    /\ form' = [ form EXCEPT !.build_matrix_table[1] = pair ]
    /\ last' = Outcome("edit_table", TRUE, NULL)
    /\ UNCHANGED <<db, disk, faults, assigned, current_product, current_project,
                   product_dropdown, project_dropdown, handoverVars>>

\* the user types into the LOT ID line edit, which takes input only while it
\* is not read-only
EditLotId(text) ==
    /\ form.unlocked
    /\ form' = [ form EXCEPT !.mes_entries["LOT ID"] = text ]
    /\ last' = Outcome("edit_field", TRUE, NULL)
    /\ UNCHANGED <<db, disk, faults, assigned, current_product, current_project,
                   product_dropdown, project_dropdown, handoverVars>>

\* HandoverTab.add_files
AddFiles(category, files) ==
    LET R == add_files(Store(db, disk), category, files)
    IN  /\ db.sqlite_sequence.handover_docs + Len(files) <= MaxDocs
        /\ Len(lists_widgets[category]) + Len(files) <= MaxDocs
        /\ Call(R.S, "add_files", NULL, NoFault)
        /\ lists_widgets' = R.lists
        /\ fs' = R.fs
        /\ UNCHANGED <<current_product, current_project, product_dropdown,
                       project_dropdown, form, archive, handover_log, report>>

\* HandoverTab.remove_selected
RemoveSelected(category, i) ==
    LET R == remove_selected(Store(db, disk), category, i)
    IN  /\ i \in 1..Len(lists_widgets[category])
        /\ Call(R.S, "remove_selected", NULL, NoFault)
        /\ lists_widgets' = R.lists
        /\ UNCHANGED <<current_product, current_project, product_dropdown,
                       project_dropdown, form, fs, archive, handover_log, report>>

\* HandoverTab.perform_handover
PerformHandover(chosen_bom, bom, report_fails, save_path, zip_fault) ==
    LET R == perform_handover(Store(db, disk), chosen_bom, bom, report_fails,
                              save_path, zip_fault)
    IN  /\ db' = R.S.db
        /\ disk' = R.S.disk
        /\ last' = Outcome("perform_handover", R.ok, NULL)
        /\ fs' = R.fs
        /\ archive' = R.archive
        /\ handover_log' = R.log
        /\ report' = R.report
        /\ UNCHANGED <<faults, assigned, current_product, current_project,
                       product_dropdown, project_dropdown, form, lists_widgets>>

(* ------------------------------ inputs --------------------------------- *)
ProjectNames == {"Widget-A", "Widget-B"}
ProductNames == {"Widgets", "Gadgets"}

DetailsPlain == ("FG Part Number" :> "FG-1") @@ ("NPI Engineer" :> "E1")
DetailsOther == ("FG Part Number" :> "FG-2") @@ ("BOM File" :> "bom.xlsx")
DetailsWorkflow == DetailsOther @@ ("MES Workflow" :> ("LOT ID" :> "L1"))
DetailsBuild ==
    "Build Matrix" :> << ("Component" :> "Resistor") @@ ("Make" :> "ACME") >>
DetailsMachine ==
    ("Assembly Drawings" :> << ("Assembly Drawing" :> "top.pdf") >>)
    @@ ("Machine Program" :> << ("Machine Name" :> "SPI") >>)

DetailsDates == ("Start Date" :> "2024-01-01") @@ ("NPI Engineer" :> "E2")

\* details of the project whose build matrix has two rows
DetailsTwoRows ==
    ("FG Part Number" :> "FG-1") @@
    ("Build Matrix" :> << ("Component" :> "Resistor") @@ ("Make" :> "ACME"),
                          ("Component" :> "Capacitor") @@ ("Make" :> "Beta") >>)

MesInput == ("LOT ID" :> "L1") @@ ("PO NUMBER" :> "PO-7") @@ ("PO Quantity" :> "5")

MesOther == ("LOT ID" :> "L2") @@ ("Work Order Quantity" :> "10")

Pairs == { <<"", "">>, <<"Resistor", "ACME">> }

RECURSIVE RowLists(_)
\* the lists of at most n pairs
RowLists(n) ==
    IF n = 0 THEN { <<>> }
    ELSE RowLists(n - 1) \cup
         { Append(l, p) : l \in { m \in RowLists(n - 1) : Len(m) = n - 1 }, p \in Pairs }

\* MaxRows different pairs in a fixed order, and the lists that start it
DrawingList == [ i \in 1..MaxRows |-> <<"asm-" \o ToString(i) \o ".pdf", "">> ]
ProgramList == [ i \in 1..MaxRows |-> <<"SPI", "prog-" \o ToString(MaxRows - i)>> ]
Prefixes(list) == { SubSeq(list, 1, n) : n \in 0..Len(list) }

\* files picked in the dialog of add_files: the second one may fail to copy
FileLists ==
    { << [ name |-> "fmea.pdf", copies |-> TRUE, catalogs |-> TRUE ] >>,
      << [ name |-> "fmea.pdf", copies |-> TRUE, catalogs |-> TRUE ],
         [ name |-> "plan.pdf", copies |-> FALSE, catalogs |-> TRUE ] >> }

DetailsInputs ==
    {DetailsPlain, DetailsOther, DetailsWorkflow, DetailsBuild, DetailsMachine}

(* --------------------------- specifications ---------------------------- *)
Init ==
    /\ db = EmptyDb
    /\ disk = EmptyDb
    /\ last = Outcome("open", TRUE, NULL)
    /\ faults = 0
    /\ assigned = {}
    /\ current_product = ""
    /\ current_project = ""
    /\ product_dropdown = {}
    /\ project_dropdown = {}
    /\ form = EmptyForm
    /\ lists_widgets = [ c \in categories |-> <<>> ]
    /\ fs = {}
    /\ archive = NoArchive
    /\ handover_log = <<>>
    /\ report = NoReport

\* Project rows: two names under two products are created, re-created and
\* deleted through DBManager; a delete may fail at any of its statements
Next ==
    \/ \E p \in ProductNames, n \in ProjectNames,
          d \in {DetailsPlain, DetailsOther, DetailsWorkflow} :
         AddProject(p, n, d)
    \/ \E n \in ProjectNames, f \in Faults(DeleteStatements) :
         DeleteProject(n, f)

Spec == Init /\ [][Next]_vars

\* Cascade: one project name, every child collection of project id 1 written
\* by its save method, and deletes that may fail at any statement
NextCascade ==
    \/ AddProject("Widgets", "Widget-A", DetailsPlain)
    \/ \E f \in Faults(DeleteStatements) : DeleteProject("Widget-A", f)
    \/ SaveMes(1, MesInput, NoFault)
    \/ SaveAssemblyDrawings(1, << <<"top.pdf", "Top">> >>, NoFault)
    \/ SaveBuildMatrix(1, << <<"Resistor", "ACME">> >>, NoFault)
    \/ SaveMachineMatrix(1, << <<"SPI", "prog-1">> >>, NoFault)
    \/ AddHandoverDoc(1, "PFMEA", "PFMEA/fmea.pdf")
    \/ InitializeChecklist(1)

SpecCascade == Init /\ [][NextCascade]_vars

\* Matrices: one project, created with and without nested details, and the
\* three matrices of project id 1 replaced by lists of at most MaxRows pairs,
\* each replace failing at any of its statements or at none
NextMatrix ==
    \/ \E d \in {DetailsPlain, DetailsBuild, DetailsMachine} :
         AddProject("Widgets", "Widget-A", d)
    \/ \E rows \in RowLists(MaxRows) : \E f \in Faults(Len(rows) + 1) :
         SaveBuildMatrix(1, rows, f)
    \/ \E rows \in Prefixes(DrawingList) : \E f \in Faults(Len(rows) + 1) :
         SaveAssemblyDrawings(1, rows, f)
    \/ \E rows \in Prefixes(ProgramList) : \E f \in Faults(Len(rows) + 1) :
         SaveMachineMatrix(1, rows, f)

SpecMatrix == Init /\ [][NextMatrix]_vars

\* Project tab and checklist: products and projects are added and opened
\* through the window, projects are also created through DBManager, and
\* checklists are seeded and edited
ItemIds == {1, Len(Template) + 1}

NextUi ==
    \/ AddProduct("Widgets")
    \/ \E prod \in {"", "Widgets"} : ConfirmProduct(prod)
    \/ NpiAddProject("Widget-A")
    \/ \E prod \in {"", "Widgets"}, proj \in {"", "Widget-A"} : ViewProject(prod, proj)
    \/ \E d \in {DetailsPlain, DetailsBuild} : AddProject("Widgets", "Widget-A", d)
    \/ \E pid \in 1..MaxProjects : InitializeChecklist(pid)
    \/ \E item_id \in ItemIds : UpdateChecklistItem(item_id, 1, "QA", "doc-1")

SpecUi == Init /\ [][NextUi]_vars

\* Workflow: the mes row of each project id is saved from dicts with
\* different keys, with and without a failing statement, around the creation
\* of a project whose details may carry a workflow
NextWorkflow ==
    \/ \E d \in {DetailsPlain, DetailsWorkflow} : AddProject("Widgets", "Widget-A", d)
    \/ \E pid \in 1..MaxProjects, mes \in {MesInput, MesOther, EmptyDict},
          f \in Faults(2) :
         SaveMes(pid, mes, f)

SpecWorkflow == Init /\ [][NextWorkflow]_vars

\* Documents: a product with two projects and a product with none; files
\* are added and removed on the Handover tab, documents are cataloged through
\* DBManager as well, and projects are opened, which reloads the lists
DocCategories == {"PFMEA", "Unlisted"}

NextDocs ==
    \/ \E n \in ProjectNames : AddProject("Widgets", n, DetailsPlain)
    \/ \E prod \in ProductNames : AddProduct(prod)
    \/ \E prod \in ProductNames \cup {""} : ConfirmProduct(prod)
    \/ \E prod \in ProductNames \cup {""}, proj \in ProjectNames \cup {""} :
         ViewProject(prod, proj)
    \/ \E pid \in 1..MaxProjects, c \in DocCategories :
         AddHandoverDoc(pid, c, "PFMEA/fmea.pdf")
    \/ \E files \in FileLists : AddFiles("PFMEA", files)
    \/ \E i \in 1..MaxDocs : RemoveSelected("PFMEA", i)

SpecDocs == Init /\ [][NextDocs]_vars

\* Handover: one project is created and opened, a file is added to it under
\* either product's directory, and the handover package is assembled with
\* every outcome of its dialogs and of its three steps
BomOutcomes == {"exported", "fails", "fails_leaving_file"}
SavePaths == {"", "Desktop/Handover.zip"}
\* an export that is not made and a ZIP that is not opened do not fail
OutcomesOf(chosen_bom) == IF chosen_bom = "" THEN {"exported"} ELSE BomOutcomes
ZipFaults(save_path) == IF save_path = "" THEN {0} ELSE 0..MaxZipFault

NextHandover ==
    \/ AddProject("Widgets", "Widget-A", DetailsPlain)
    \/ \E prod \in ProductNames : AddProduct(prod)
    \/ \E prod \in ProductNames : ConfirmProduct(prod)
    \/ ViewProject("Widgets", "Widget-A")
    \/ AddFiles("PFMEA", << [ name |-> "fmea.pdf", copies |-> TRUE,
                                catalogs |-> TRUE ] >>)
    \/ \E chosen_bom \in {"", "BOM-1"}, report_fails \in BOOLEAN,
          save_path \in SavePaths :
         \E bom \in OutcomesOf(chosen_bom), zip_fault \in ZipFaults(save_path) :
           PerformHandover(chosen_bom, bom, report_fails, save_path, zip_fault)

SpecHandover == Init /\ [][NextHandover]_vars

\* Report: project Widget-A is created with two build-matrix rows, its
\* matrix may be replaced, it is opened on the Project tab and the handover
\* package is assembled
NextReport ==
    \/ AddProject("Widgets", "Widget-A", DetailsTwoRows)
    \/ AddProduct("Widgets")
    \/ ConfirmProduct("Widgets")
    \/ ViewProject("Widgets", "Widget-A")
    \/ \E rows \in RowLists(MaxRows) : SaveBuildMatrix(1, rows, NoFault)
    \/ \E chosen_bom \in {"", "BOM-1"}, report_fails \in BOOLEAN,
          save_path \in SavePaths :
         \E bom \in OutcomesOf(chosen_bom), zip_fault \in ZipFaults(save_path) :
           PerformHandover(chosen_bom, bom, report_fails, save_path, zip_fault)

SpecReport == Init /\ [][NextReport]_vars

\* Details: two projects with child rows are created and deleted, and the
\* metadata of either name, present or not, is overwritten from dicts that
\* carry different keys
NextDetails ==
    \/ \E n \in ProjectNames, d \in {DetailsPlain, DetailsTwoRows} :
         AddProject("Widgets", n, d)
    \/ \E n \in ProjectNames, d \in {DetailsOther, DetailsDates, EmptyDict} :
         UpdateProjectDetails(n, d)
    \/ \E pid \in 1..MaxProjects : SaveMes(pid, MesInput, NoFault)
    \/ \E n \in ProjectNames : DeleteProject(n, NoFault)

SpecDetails == Init /\ [][NextDetails]_vars

\* Checklist: the project is created, deleted and created again, checklists
\* are seeded for the ids it gets, and the first item of each and the second
\* item of the first are set to Done or Pending, as _save_to_db does with
\* the check state of each row
CheckedItemIds == ItemIds \cup {2}

NextChecklist ==
    \/ AddProject("Widgets", "Widget-A", DetailsPlain)
    \/ DeleteProject("Widget-A", NoFault)
    \/ \E pid \in 1..MaxProjects : InitializeChecklist(pid)
    \/ SaveMes(1, MesInput, NoFault)
    \/ \E item_id \in CheckedItemIds, completed \in {0, 1} :
         UpdateChecklistItem(item_id, completed, "QA", "doc-1")

SpecChecklist == Init /\ [][NextChecklist]_vars

\* Re-runs: the workflow row and the three matrices of project id 1 are
\* saved again and again, each save failing at any of its statements or at
\* none, project id 2 gets a workflow row and a build matrix of its own, and
\* the same document is cataloged repeatedly
BuildList == << <<"Resistor", "ACME">>, <<"Capacitor", "Beta">> >>

NextRerun ==
    \/ AddProject("Widgets", "Widget-A", DetailsPlain)
    \/ \E mes \in {MesInput, MesOther}, f \in Faults(2) : SaveMes(1, mes, f)
    \/ SaveMes(2, MesInput, NoFault)
    \/ \E rows \in Prefixes(BuildList) : \E f \in Faults(Len(rows) + 1) :
         SaveBuildMatrix(1, rows, f)
    \/ SaveBuildMatrix(2, BuildList, NoFault)
    \/ \E rows \in Prefixes(DrawingList) \ {<<>>} : \E f \in Faults(Len(rows) + 1) :
         SaveAssemblyDrawings(1, rows, f)
    \/ \E rows \in Prefixes(ProgramList) \ {<<>>} : \E f \in Faults(Len(rows) + 1) :
         SaveMachineMatrix(1, rows, f)
    \/ AddHandoverDoc(1, "PFMEA", "PFMEA/fmea.pdf")

SpecRerun == Init /\ [][NextRerun]_vars

\* Batches: what can happen to one chosen file (it copies and is cataloged,
\* copy2 raises, or add_handover_doc raises), and the batches of one or two
\* files picked in the dialog of add_files
FileOutcomes == { <<TRUE, TRUE>>, <<FALSE, TRUE>>, <<TRUE, FALSE>> }
ChosenFile(name, o) == [ name |-> name, copies |-> o[1], catalogs |-> o[2] ]
FileBatches ==
    { << ChosenFile("fmea.pdf", o) >> : o \in FileOutcomes }
    \cup { << ChosenFile("fmea.pdf", o1), ChosenFile("plan.pdf", o2) >> :
             o1 \in FileOutcomes, o2 \in FileOutcomes }

NextBatch ==
    \/ AddProject("Widgets", "Widget-A", DetailsPlain)
    \/ DeleteProject("Widget-A", NoFault)
    \/ AddProduct("Widgets")
    \/ ConfirmProduct("Widgets")
    \/ ViewProject("Widgets", "Widget-A")
    \/ \E c \in {"PFMEA", "Control Plan"}, files \in FileBatches :
         AddFiles(c, files)

SpecBatch == Init /\ [][NextBatch]_vars

\* Edit lock: one project is added through the window, opened, unlocked with
\* right and wrong passwords, edited and updated, and added again under its
\* own name
PasswordsTyped == {"vvs18", " vvs18 ", "vvs"}

NextLock ==
    \/ AddProduct("Widgets")
    \/ ConfirmProduct("Widgets")
    \/ NpiAddProject("Widget-A")
    \/ ViewProject("Widgets", "Widget-A")
    \/ \E pwd \in PasswordsTyped, ok \in BOOLEAN : EnableEditing(pwd, ok)
    \/ UpdateProject
    \/ \E pair \in Pairs : EditBuildMatrixTable(pair)
    \/ \E text \in {"", "L1"} : EditLotId(text)

SpecLock == Init /\ [][NextLock]_vars

\* Directories: two projects whose names differ in a blank and an underscore
\* are created under one product and opened, a file is added to the opened
\* one, and the handover package is assembled
SimilarNames == {"Widget A", "Widget_A"}

NextDirs ==
    \/ AddProduct("Widgets")
    \/ ConfirmProduct("Widgets")
    \/ \E n \in SimilarNames : AddProject("Widgets", n, DetailsPlain)
    \/ \E n \in SimilarNames : ViewProject("Widgets", n)
    \/ \E f \in {"fmea.pdf", "plan.pdf"} :
         AddFiles("PFMEA", << [ name |-> f, copies |-> TRUE, catalogs |-> TRUE ] >>)
    \/ \E report_fails \in BOOLEAN, save_path \in SavePaths :
         PerformHandover("", "exported", report_fails, save_path, 0)

SpecDirs == Init /\ [][NextDirs]_vars

(* ============================== claims ================================= *)
\* the rows of every table that carry project id pid
RowsOfProject(d, pid) ==
    [ projects          |-> RowsOf(d.projects, pid),
      mes               |-> RowsOf(d.mes, pid),
      assembly_drawings |-> RowsOf(d.assembly_drawings, pid),
      build_matrix      |-> RowsOf(d.build_matrix, pid),
      machine_matrix    |-> RowsOf(d.machine_matrix, pid),
      handover_docs     |-> RowsOf(d.handover_docs, pid),
      checklist_items   |-> RowsOf(d.checklist_items, pid) ]

ChildTables ==
    { "mes", "assembly_drawings", "build_matrix", "machine_matrix",
      "handover_docs", "checklist_items" }

HasEveryChild(d, pid) == \A t \in ChildTables : RowsOfProject(d, pid)[t] # <<>>
HasNoChild(d, pid) == \A t \in ChildTables : RowsOfProject(d, pid)[t] = <<>>
HasNoRow(d, pid) == HasNoChild(d, pid) /\ RowsOf(d.projects, pid) = <<>>

\* C1: a delete_project that returns, called for a project that has a row in
\* each of the six child tables, leaves no row with the project's id in any
\* child table.
C1_CascadeCompleteness ==
    [][ \A n \in ProjectNames :
          ( /\ DeleteProject(n, NoFault)
            /\ get_project_by_name(db, n) # <<>>
            /\ HasEveryChild(db, ProjectIdOf(db, n)) )
          => HasNoChild(db', ProjectIdOf(db, n)) ]_vars

\* C2: a delete_project that raises leaves, for the connection that reads
\* next, either every row of the project as it was or none of them.
C2_DeleteAtomic ==
    [][ \A n \in ProjectNames, f \in Faults(DeleteStatements) :
          ( /\ f.at # 0
            /\ DeleteProject(n, f)
            /\ get_project_by_name(db, n) # <<>> )
          => \/ RowsOfProject(db', ProjectIdOf(db, n))
                  = RowsOfProject(db, ProjectIdOf(db, n))
             \/ HasNoRow(db', ProjectIdOf(db, n)) ]_vars

\* C3: add_project returns the id of the one row that carries the name, the
\* id the name already had when it was taken; no two rows share a name.
UniqueNames(d) ==
    \A i, j \in 1..Len(d.projects) :
        d.projects[i].project_name = d.projects[j].project_name => i = j

C3_CreateIdempotent ==
    /\ [](UniqueNames(db))
    /\ [][ \A p \in ProductNames, n \in ProjectNames, d \in DetailsInputs :
             AddProject(p, n, d)
             => /\ last'.ok
                /\ Len(get_project_by_name(db', n)) = 1
                /\ last'.pid = get_project_by_name(db', n)[1].project_id
                /\ get_project_by_name(db, n) # <<>>
                     => /\ last'.pid = ProjectIdOf(db, n)
                        /\ db'.projects = db.projects ]_vars

\* C4: add_project, called through DBManager with any details or through
\* the window's Add Project, for a name that already has a row, returns
\* and leaves the project's row and every child row of it as they were.
C4_ReAddNoOp ==
    [][ \A n \in ProjectNames :
          ( /\ get_project_by_name(db, n) # <<>>
            /\ \/ NpiAddProject(n)
               \/ \E p \in ProductNames, d \in DetailsInputs : AddProject(p, n, d) )
          => /\ last'.ok
             /\ RowsOfProject(db', ProjectIdOf(db, n))
                  = RowsOfProject(db, ProjectIdOf(db, n)) ]_vars

\* C5: the id of a row that add_project inserts is none that any projects
\* row has carried before, deleted rows included.
C5_IdsNeverReused ==
    [][ \A p \in ProductNames, n \in ProjectNames, d \in DetailsInputs :
          AddProject(p, n, d)
          => \A i \in ProjectIds(db') \ ProjectIds(db) : i \notin assigned ]_vars

\* C5 witness: a project was deleted, and the project just created carries
\* a later id
C5_Witness ==
    /\ last.op = "add_project" /\ last.ok
    /\ \E i \in assigned \ ProjectIds(db) : i < last.pid
    /\ last.pid \in ProjectIds(disk)

\* C6: for each of the three kinds, a save that returns, whatever rows the
\* project had before and whatever list of pairs it is given (the empty list
\* and empty strings included), is followed by a get that returns exactly
\* that list in that order, from the connection and from the file.
C6_ReplaceRoundTrip ==
    [][ /\ \A rows \in RowLists(MaxRows) :
             SaveBuildMatrix(1, rows, NoFault)
             => get_build_matrix(db', 1) = rows /\ get_build_matrix(disk', 1) = rows
        /\ \A rows \in Prefixes(DrawingList) :
             SaveAssemblyDrawings(1, rows, NoFault)
             => /\ get_assembly_drawings(db', 1) = rows
                /\ get_assembly_drawings(disk', 1) = rows
        /\ \A rows \in Prefixes(ProgramList) :
             SaveMachineMatrix(1, rows, NoFault)
             => /\ get_machine_matrix(db', 1) = rows
                /\ get_machine_matrix(disk', 1) = rows ]_vars

\* C6 witness: save_build_matrix has just returned after replacing the rows
\* with a list of MaxRows pairs that ends in an empty pair, while the other
\* two kinds hold the rows of their own earlier saves
C6_Witness ==
    /\ last.op = "save_build_matrix" /\ last.ok
    /\ Len(get_build_matrix(disk, 1)) = MaxRows
    /\ get_build_matrix(disk, 1)[1] = <<"Resistor", "ACME">>
    /\ get_build_matrix(disk, 1)[MaxRows] = <<"", "">>
    /\ get_assembly_drawings(disk, 1) = DrawingList
    /\ get_machine_matrix(disk, 1) = ProgramList

\* the seq values of the durable rows of one project in one table, in the
\* order the rows were inserted, are 1, 2, ..., N
DenseSeq(tbl, pid) ==
    \A i \in 1..Len(RowsOf(tbl, pid)) : RowsOf(tbl, pid)[i].seq = i

\* C7: in every reachable state, for every project and each of the three
\* kinds, the committed rows carry the seq values 1..N in the order they were
\* supplied, the rows that add_project writes from its details included.
C7_SeqDense ==
    \A pid \in 1..MaxProjects :
        /\ DenseSeq(disk.build_matrix, pid)
        /\ DenseSeq(disk.assembly_drawings, pid)
        /\ DenseSeq(disk.machine_matrix, pid)

\* C8: a save of one of the three kinds that raises, at its DELETE or at any
\* of its INSERTs, leaves the rows of that project and kind, as the next read
\* on the connection returns them, exactly as they were before the call.
C8_ReplaceAllOrNothing ==
    [][ /\ \A rows \in RowLists(MaxRows) : \A f \in Faults(Len(rows) + 1) :
             (f.at # 0 /\ SaveBuildMatrix(1, rows, f))
             => RowsOf(db'.build_matrix, 1) = RowsOf(db.build_matrix, 1)
        /\ \A rows \in Prefixes(DrawingList) : \A f \in Faults(Len(rows) + 1) :
             (f.at # 0 /\ SaveAssemblyDrawings(1, rows, f))
             => RowsOf(db'.assembly_drawings, 1) = RowsOf(db.assembly_drawings, 1)
        /\ \A rows \in Prefixes(ProgramList) : \A f \in Faults(Len(rows) + 1) :
             (f.at # 0 /\ SaveMachineMatrix(1, rows, f))
             => RowsOf(db'.machine_matrix, 1) = RowsOf(db.machine_matrix, 1) ]_vars

\* the calls that seed a checklist: initialize_checklist itself, opening a
\* project (load_for_project) and the window's Add Project
SeedingOps == {"initialize_checklist", "view_project", "npi_add_project"}

ChecklistOf(d, pid) == SelectSeq(d.checklist_items, LAMBDA r : r.project_id = pid)

\* C9: every project has no checklist row or one row per template entry; a
\* seeding call for a project that has rows adds none, removes none and
\* changes none of them, whatever update_checklist_item wrote before; a
\* seeding call that returns leaves its project one row per template entry.
C9_SeedOnce ==
    /\ [](\A pid \in 1..MaxProjects :
             Len(ChecklistOf(db, pid)) \in {0, Len(Template)})
    /\ [][ (last'.op \in SeedingOps /\ last'.ok)
           => /\ \A pid \in 1..MaxProjects :
                   ChecklistOf(db, pid) # <<>>
                   => ChecklistOf(db', pid) = ChecklistOf(db, pid)
              /\ Len(ChecklistOf(db', last'.pid)) = Len(Template)
              /\ \A i \in 1..Len(Template) :
                   ChecklistOf(db', last'.pid)[i].item_name = Template[i].item_name
         ]_vars

\* C9 witness: the project was opened after its first item had been set to
\* Done by QA, and the checklist still holds that item and its 42 rows
C9_Witness ==
    /\ last.op = "view_project" /\ last.ok
    /\ Len(ChecklistOf(disk, last.pid)) = Len(Template)
    /\ ChecklistOf(disk, last.pid)[1].completed = 1
    /\ ChecklistOf(disk, last.pid)[1].person = "QA"
    /\ ChecklistOf(disk, last.pid)[1].reference = "doc-1"

\* C10: a seeding call for a project without checklist rows leaves it the 42
\* template entries, which get_checklist returns in the template's order
\* with seq 1..42, completed 0, the template's person and an empty reference.
C10_SeedingContent ==
    [][ (last'.op \in SeedingOps /\ last'.ok /\ ChecklistOf(db, last'.pid) = <<>>)
        => LET got == get_checklist(db', last'.pid)
           IN  /\ Len(Template) = 42
               /\ ChecklistOf(disk', last'.pid) = ChecklistOf(db', last'.pid)
               /\ [ i \in 1..Len(got) |->
                      <<got[i].item_name, got[i].seq, got[i].completed,
                        got[i].person, got[i].reference>> ]
                    = [ i \in 1..42 |->
                          <<Template[i].item_name, i, 0, Template[i].person, "">> ]
      ]_vars

\* C10 witness: initialize_checklist has just seeded project 2 while project
\* 1 holds an edited checklist: the 42 rows of project 2 are untouched copies
\* of the template, the last one "Lesson Learnt" for SANTHOSH
C10_Witness ==
    /\ last.op = "initialize_checklist" /\ last.ok /\ last.pid = 2
    /\ ChecklistOf(disk, 1) # <<>>
    /\ ChecklistOf(disk, 1)[1].completed = 1
    /\ Len(get_checklist(disk, 2)) = 42
    /\ get_checklist(disk, 2)[42].item_name = "Lesson Learnt"
    /\ get_checklist(disk, 2)[42].person = "SANTHOSH"
    /\ \A i \in 1..42 : get_checklist(disk, 2)[i].completed = 0

\* C11: update_checklist_item returns for every item id; with an id no row
\* carries it changes no checklist row; with the id of a row it sets that
\* row's completed, person and reference to the arguments and changes
\* neither its other columns nor any other row.
C11_UpdateItem ==
    [][ \A item_id \in ItemIds :
          UpdateChecklistItem(item_id, 1, "QA", "doc-1")
          => /\ last'.ok
             /\ Len(db'.checklist_items) = Len(db.checklist_items)
             /\ \A i \in 1..Len(db.checklist_items) :
                  IF db.checklist_items[i].id = item_id
                  THEN db'.checklist_items[i] =
                         [ db.checklist_items[i] EXCEPT !.completed = 1,
                                                        !.person = "QA",
                                                        !.reference = "doc-1" ]
                  ELSE db'.checklist_items[i] = db.checklist_items[i]
             /\ disk'.checklist_items = db'.checklist_items ]_vars

\* C11 witness: the first item of the second checklist has just been set to
\* Done by QA with its name and seq as seeded, while the first checklist is
\* as seeded
C11_Witness ==
    /\ last.op = "update_checklist_item" /\ last.ok
    /\ Len(disk.checklist_items) = 2 * Len(Template)
    /\ LET r == disk.checklist_items[Len(Template) + 1]
       IN  /\ r.id = Len(Template) + 1
           /\ r.completed = 1 /\ r.person = "QA" /\ r.reference = "doc-1"
           /\ r.item_name = Template[1].item_name /\ r.seq = 1
    /\ \A i \in 1..Len(Template) : disk.checklist_items[i].completed = 0

\* the value save_mes stores for a field the dict does not carry
MesDefault(f) == IF f \in {"Work Order Quantity", "PO Quantity"} THEN NoneText ELSE ""

\* the mes row r as a dict over the eight field labels
MesFieldsOf(r) ==
    [ f \in mes_fields |->
        CASE f = "LOT ID"              -> r.lot_id
          [] f = "Workflow SMT - Name" -> r.workflow_smt
          [] f = "Workflow TLA - Name" -> r.workflow_tla
          [] f = "SMT - Work Order"    -> r.smt_work_order
          [] f = "TLA - Work Order"    -> r.tla_work_order
          [] f = "Work Order Quantity" -> r.work_order_qty
          [] f = "PO NUMBER"           -> r.po_number
          [] f = "PO Quantity"         -> r.po_qty ]

DocIds(d) == { d.handover_docs[i].id : i \in 1..Len(d.handover_docs) }

\* C13: add_handover_doc never deduplicates: each call, whatever rows the
\* catalog holds, appends one row with the given project, category and path
\* under an id no row carries, so the project's row count grows by exactly
\* one and the rows before stay; each file add_files copies for a project
\* with a row is cataloged the same way; no two catalog rows share an id.
C13_AppendNoDedup ==
    /\ [](\A i, j \in 1..Len(db.handover_docs) :
             db.handover_docs[i].id = db.handover_docs[j].id => i = j)
    /\ [][ \A pid \in 1..MaxProjects, c \in DocCategories :
             AddHandoverDoc(pid, c, "PFMEA/fmea.pdf")
             => /\ Len(RowsOf(db'.handover_docs, pid))
                     = Len(RowsOf(db.handover_docs, pid)) + 1
                /\ SubSeq(db'.handover_docs, 1, Len(db.handover_docs))
                     = db.handover_docs
                /\ LET r == db'.handover_docs[Len(db'.handover_docs)]
                   IN  /\ r.id \notin DocIds(db)
                       /\ r.project_id = pid /\ r.category = c
                       /\ r.file_path = "PFMEA/fmea.pdf"
                /\ disk'.handover_docs = db'.handover_docs ]_vars
    /\ [][ \A files \in FileLists :
             ( AddFiles("PFMEA", files)
               /\ get_current_project_dir # ""
               /\ ProjectIdOf(db, current_project) # NULL )
             => Len(RowsOf(db'.handover_docs, ProjectIdOf(db, current_project)))
                  = Len(RowsOf(db.handover_docs, ProjectIdOf(db, current_project)))
                    + Len(SelectSeq(files, LAMBDA f : f.copies)) ]_vars

\* C13 witness: the same category and path was added to project 1 twice,
\* the second time just now: two catalog rows that differ in the id only
C13_Witness ==
    /\ last.op = "add_handover_doc" /\ last.ok /\ last.pid = 1
    /\ Len(disk.handover_docs) = 2
    /\ disk.handover_docs[1].id # disk.handover_docs[2].id
    /\ \A i \in 1..2 : /\ disk.handover_docs[i].project_id = 1
                        /\ disk.handover_docs[i].category = "PFMEA"
                        /\ disk.handover_docs[i].file_path = "PFMEA/fmea.pdf"

\* C14: remove_selected of a list item that carries no id, only a path,
\* deletes every catalog row of the current project with that path and no
\* other row.
C14_RemoveByPath ==
    [][ \A i \in 1..MaxDocs :
          ( /\ RemoveSelected("PFMEA", i)
            /\ lists_widgets["PFMEA"][i].id = NULL )
          => db'.handover_docs =
               SelectSeq(db.handover_docs,
                 LAMBDA r : ~( /\ r.project_id = ProjectIdOf(db, current_project)
                               /\ r.file_path = lists_widgets["PFMEA"][i].path )) ]_vars

\* C15: in every reachable state the category of every catalog row is one
\* of the fourteen categories of the Handover tab, and an add_handover_doc
\* with another category adds no row.
C15_CategoryFixed ==
    /\ [](\A i \in 1..Len(db.handover_docs) :
             db.handover_docs[i].category \in categories)
    /\ [][ \A pid \in 1..MaxProjects, c \in DocCategories \ categories :
             AddHandoverDoc(pid, c, "PFMEA/fmea.pdf")
             => db'.handover_docs = db.handover_docs ]_vars

\* C16: child rows exist only under a project row: save_mes, a matrix
\* replace, add_handover_doc or initialize_checklist called with id 1 while
\* no projects row and no child row carries id 1 leaves the store without a
\* child row of id 1.
C16_ChildrenOfExisting ==
    [][ ( /\ 1 \notin ProjectIds(db)
          /\ HasNoChild(db, 1)
          /\ \/ SaveMes(1, MesInput, NoFault)
             \/ SaveAssemblyDrawings(1, << <<"top.pdf", "Top">> >>, NoFault)
             \/ SaveBuildMatrix(1, << <<"Resistor", "ACME">> >>, NoFault)
             \/ SaveMachineMatrix(1, << <<"SPI", "prog-1">> >>, NoFault)
             \/ AddHandoverDoc(1, "PFMEA", "PFMEA/fmea.pdf")
             \/ InitializeChecklist(1) )
        => HasNoChild(db', 1) ]_vars

\* C17: perform_handover writes nothing to the store: whatever its dialogs
\* return and whichever of its steps fails, the seven tables and the id
\* counters are the same after it as before, on the connection and durably.
C17_HandoverReadOnly ==
    [][ last'.op = "perform_handover" => db' = db /\ disk' = disk ]_vars

\* C17 witness: a handover whose BOM export and report both failed and whose
\* ZIP was written, on a store that holds a project with a cataloged file
C17_Witness ==
    /\ last.op = "perform_handover" /\ last.ok
    /\ handover_log = <<"sheet_chosen", "bom_export", "bom_warning",
                        "report", "pdf_warning", "zip", "handover_created">>
    /\ Len(disk.projects) = 1
    /\ Len(disk.handover_docs) = 1
    /\ disk = db

\* what perform_handover may do, in order, once a project is selected and
\* the save dialog returned a path: the BOM export only after a sheet was
\* chosen, then the report, then the ZIP, each once, a warning after a failed
\* export or report, and the error box after a failed ZIP
PipelineLogs ==
    { b \o r \o z :
        b \in { <<>>, <<"sheet_chosen", "bom_export">>,
                 <<"sheet_chosen", "bom_export", "bom_warning">> },
        r \in { <<"report">>, <<"report", "pdf_warning">> },
        z \in { <<"zip", "handover_created">>, <<"zip", "zip_error">> } }

Logged(log, step) == \E i \in 1..Len(log) : log[i] = step

\* C18: a perform_handover with a project selected and a save path given
\* runs the BOM export (only if a sheet was chosen), the report and the ZIP
\* in this order, each once; a failed export or report is followed by its
\* warning and the next step, a failed ZIP by the error box, which ends the
\* invocation without a handover.
C18_PipelinePolicy ==
    [][ ( /\ last'.op = "perform_handover"
          /\ get_current_project_dir # ""
          /\ ~Logged(handover_log', "save_cancelled") )
        => /\ handover_log' \in PipelineLogs
           /\ Logged(handover_log', "pdf_warning") <=> ~report'.ok
           /\ Logged(handover_log', "zip_error") <=> ~last'.ok ]_vars

\* C18 witness: a handover in which the export of the chosen sheet, the
\* report and the ZIP all failed, each attempted once and in order
C18_Witness ==
    /\ last.op = "perform_handover" /\ ~last.ok
    /\ handover_log = <<"sheet_chosen", "bom_export", "bom_warning",
                        "report", "pdf_warning", "zip", "zip_error">>

\* C19: when the catalog lookup of _generate_project_pdf finds no project
\* row, the report is produced all the same, its Documents Summary listing
\* for each category the texts of the items of the tab's list: a
\* perform_handover whose report writer does not fail leaves
\* Project_Report.pdf in the project directory.
C19_ReportFallback ==
    [][ \A chosen_bom \in {"", "BOM-1"}, bom \in BomOutcomes,
           save_path \in SavePaths, zip_fault \in 0..MaxZipFault :
          ( /\ PerformHandover(chosen_bom, bom, FALSE, save_path, zip_fault)
            /\ get_current_project_dir # ""
            /\ get_project_by_name(db, get_current_project_dir) = <<>> )
          => /\ report'.ok
             /\ report'.summary =
                  [ c \in categories |->
                      [ i \in 1..Len(lists_widgets[c]) |->
                          ItemText(lists_widgets[c][i]) ] ]
             /\ <<get_current_project_dir, "Project_Report.pdf">> \in fs' ]_vars

\* C20: the ZIP that a perform_handover has written in full holds exactly
\* one entry for each file under the project directory, exported BOM sheet
\* included, and none for any other file; the name of the entry is the
\* file's path from the parent of the project directory, so it starts with
\* the project directory's name.
C20_ArchiveContents ==
    [][ ( last'.op = "perform_handover" /\ last'.ok )
        => LET dir   == get_current_project_dir
               files == { f \in fs' : f[1] = dir }
               e     == archive'.entries
           IN  /\ Len(e) = Cardinality(files)
               /\ \A f \in files :
                     Cardinality({ i \in 1..Len(e) : e[i] = dir \o "/" \o f[2] }) = 1
               /\ \A i \in 1..Len(e) :
                     \E f \in files : e[i] = dir \o "/" \o f[2] ]_vars

\* C20 witness: the ZIP of project directory Widgets_Widget-A holds the file
\* added to PFMEA and the BOM sheet exported by the same handover, and not
\* the file that lies under the directory Gadgets_Widget-A
C20_Witness ==
    /\ last.op = "perform_handover" /\ last.ok
    /\ get_current_project_dir = "Widgets_Widget-A"
    /\ Len(handover_log) > 1 /\ handover_log[2] = "bom_export"
    /\ { archive.entries[i] : i \in 1..Len(archive.entries) }
         = { "Widgets_Widget-A/PFMEA/fmea.pdf", "Widgets_Widget-A/BOM-1.xlsx" }
    /\ <<"Gadgets_Widget-A", "PFMEA/fmea.pdf">> \in fs

\* C21: the Build Matrix section of the report that perform_handover
\* generates for the opened project lists the build_matrix rows stored for
\* that project, in seq order, and no other line: when the report writer
\* does not fail, the report exists and its section equals the stored rows.
C21_ReportBuildMatrix ==
    [][ \A chosen_bom \in {"", "BOM-1"}, save_path \in SavePaths :
          \A bom \in OutcomesOf(chosen_bom), zip_fault \in ZipFaults(save_path) :
            ( /\ PerformHandover(chosen_bom, bom, FALSE, save_path, zip_fault)
              /\ get_current_project_dir # ""
              /\ ProjectIdOf(db, current_project) # NULL )
            => /\ report'.ok
               /\ report'.build_matrix
                    = get_build_matrix(db, ProjectIdOf(db, current_project)) ]_vars

\* C22: update_project_details(name, details) returns normally and sets the
\* six metadata columns of the projects row named name to the dict's values
\* (to "" where the dict has no key); the row's id, product and name, every
\* other projects row, every child table and the id counters are as before;
\* when no row has that name nothing changes.
C22_UpdateDetailsFrame ==
    [][ \A n \in ProjectNames, d \in {DetailsOther, DetailsDates, EmptyDict} :
          UpdateProjectDetails(n, d)
          => /\ last'.ok
             /\ disk' = db'
             /\ [ db' EXCEPT !.projects = db.projects ] = db
             /\ Len(db'.projects) = Len(db.projects)
             /\ \A i \in 1..Len(db.projects) :
                  IF db.projects[i].project_name = n
                  THEN /\ db'.projects[i].project_id = db.projects[i].project_id
                       /\ db'.projects[i].product_name = db.projects[i].product_name
                       /\ db'.projects[i].project_name = n
                       /\ db'.projects[i].fg_part_number = Get(d, "FG Part Number", "")
                       /\ db'.projects[i].pcba_part_number = Get(d, "PCBA Part Number", "")
                       /\ db'.projects[i].start_date = Get(d, "Start Date", "")
                       /\ db'.projects[i].end_date = Get(d, "End Date", "")
                       /\ db'.projects[i].bom_file = Get(d, "BOM File", "")
                       /\ db'.projects[i].npi_engineer = Get(d, "NPI Engineer", "")
                  ELSE db'.projects[i] = db.projects[i] ]_vars

\* C22 witness: project Widget-B has just been given a start date and the
\* engineer E2 and lost its part number, while Widget-A keeps FG-1 and both
\* keep their workflow rows
C22_Witness ==
    /\ last.op = "update_project_details" /\ last.ok
    /\ Len(disk.projects) = 2
    /\ disk.projects[1].project_name = "Widget-A"
    /\ disk.projects[1].fg_part_number = "FG-1"
    /\ disk.projects[2].project_name = "Widget-B"
    /\ disk.projects[2].fg_part_number = ""
    /\ disk.projects[2].start_date = "2024-01-01"
    /\ disk.projects[2].npi_engineer = "E2"
    /\ Len(disk.mes) = 2

\* the checklist row with the given id, <<>> if there is none
ItemOf(d, item_id) == SelectSeq(d.checklist_items, LAMBDA r : r.id = item_id)

\* C23: every checklist item is Pending (completed = 0) or Done
\* (completed = 1) at all times; update_checklist_item puts the item into
\* the state its completed argument names, from either state; the same
\* update applied again changes nothing; and a call that is neither an
\* update_checklist_item nor a delete_project leaves every item there is in
\* its state.
C23_ItemStateMachine ==
    /\ [](\A i \in 1..Len(db.checklist_items) :
             db.checklist_items[i].completed \in {0, 1})
    /\ [][ \A item_id \in CheckedItemIds, completed \in {0, 1} :
             ( UpdateChecklistItem(item_id, completed, "QA", "doc-1")
               /\ ItemOf(db, item_id) # <<>> )
             => /\ ItemOf(db', item_id)[1].completed = completed
                /\ \A other \in CheckedItemIds \ {item_id} :
                     ItemOf(db', other) = ItemOf(db, other)
                /\ update_checklist_item(Store(db', disk'), item_id, completed,
                                         "QA", "doc-1").db = db' ]_vars
    /\ [][ last'.op \notin {"update_checklist_item", "delete_project"}
           => \A i \in 1..Len(db.checklist_items) :
                /\ i <= Len(db'.checklist_items)
                /\ db'.checklist_items[i].id = db.checklist_items[i].id
                /\ db'.checklist_items[i].completed
                     = db.checklist_items[i].completed ]_vars

\* C23 witness: item 1 was set to Done and has just been set back to
\* Pending, while item 2 is Done and the second checklist's first item is
\* Pending as seeded
C23_Witness ==
    /\ last.op = "update_checklist_item"
    /\ Len(db.checklist_items) = 2 * Len(Template)
    /\ ItemOf(db, 1)[1].completed = 0 /\ ItemOf(db, 1)[1].person = "QA"
    /\ ItemOf(db, 2)[1].completed = 1
    /\ ItemOf(db, Len(Template) + 1)[1].completed = 0
    /\ ItemOf(db, Len(Template) + 1)[1].person # "QA"


\* the rows of the projects other than project 1, in rowid order
OthersThan1(tbl) == SelectSeq(tbl, LAMBDA r : r.project_id # 1)

ReplacedTables == {"mes", "build_matrix", "assembly_drawings", "machine_matrix"}

\* C24: a replace-all save that returns leaves exactly the rows of its
\* arguments for the project, after the untouched rows of the other
\* projects, whatever rows the project had before -- the leftovers of an
\* earlier run that failed partway included -- and commits them; running it
\* once more with the same arguments changes nothing.  A run that fails
\* leaves the rows of the other projects and the committed state alone, so
\* the re-run ends where a single successful run would have.  Cataloging the
\* same document again adds one more row each time.
C24_IdempotentOverwrite ==
    [][ /\ \A mes \in {MesInput, MesOther} :
             SaveMes(1, mes, NoFault) =>
               /\ db'.mes = OthersThan1(db.mes) \o << MesRow(1, mes) >>
               /\ disk' = db'
               /\ save_mes(Store(db', disk'), 1, mes, NoFault).db = db'
        /\ \A rows \in Prefixes(BuildList) :
             SaveBuildMatrix(1, rows, NoFault) =>
               /\ db'.build_matrix =
                    OthersThan1(db.build_matrix) \o BuildRows(1, rows)
               /\ disk' = db'
               /\ save_build_matrix(Store(db', disk'), 1, rows, NoFault).db = db'
        /\ \A rows \in Prefixes(DrawingList) :
             SaveAssemblyDrawings(1, rows, NoFault) =>
               /\ db'.assembly_drawings =
                    OthersThan1(db.assembly_drawings) \o AssemblyRows(1, rows)
               /\ disk' = db'
               /\ save_assembly_drawings(Store(db', disk'), 1, rows, NoFault).db = db'
        /\ \A rows \in Prefixes(ProgramList) :
             SaveMachineMatrix(1, rows, NoFault) =>
               /\ db'.machine_matrix =
                    OthersThan1(db.machine_matrix) \o MachineRows(1, rows)
               /\ disk' = db'
               /\ save_machine_matrix(Store(db', disk'), 1, rows, NoFault).db = db'
        /\ (last' # last /\ ~last'.ok /\ last'.pid = 1) =>
               /\ disk' = disk
               /\ \A t \in ReplacedTables : OthersThan1(db'[t]) = OthersThan1(db[t])
        /\ AddHandoverDoc(1, "PFMEA", "PFMEA/fmea.pdf") =>
               /\ Len(RowsOf(db'.handover_docs, 1)) =
                    Len(RowsOf(db.handover_docs, 1)) + 1
               /\ db'.handover_docs[Len(db'.handover_docs)].file_path = "PFMEA/fmea.pdf"
      ]_vars

\* a build matrix saved again after a run of some save had failed, beside
\* the rows of project 2, and the same document cataloged twice
C24_Witness ==
    /\ faults = MaxFaults
    /\ last.op = "save_build_matrix" /\ last.ok /\ last.pid = 1
    /\ RowsOf(db.build_matrix, 1) = BuildRows(1, BuildList)
    /\ Len(RowsOf(db.build_matrix, 2)) = Len(BuildList)
    /\ Len(RowsOf(db.mes, 1)) = 1
    /\ Len(RowsOf(db.handover_docs, 1)) = 2
    /\ db.handover_docs[1].file_path = db.handover_docs[2].file_path
    /\ disk = db


\* what one call of add_files appended to a sequence
AddedTo(before, after) == SubSeq(after, Len(before) + 1, Len(after))

\* the relative path add_files gives file f in the category
RelPath(category, f) == CategoryDir(category) \o "/" \o f.name

BatchCategories == {"PFMEA", "Control Plan"}

\* C25: every catalog row a call of add_files inserts is the row of a chosen
\* file whose copy succeeded and stands in the project directory, and a
\* chosen file whose copy fails gets, from this call, no catalog row and no
\* item in the category's list; the rows and items that were there stay
C25_CopyBeforeCatalog ==
    [][ \A c \in BatchCategories, files \in FileBatches :
          AddFiles(c, files) =>
            LET rows  == AddedTo(db.handover_docs, db'.handover_docs)
                items == AddedTo(lists_widgets[c], lists_widgets'[c])
            IN  /\ SubSeq(db'.handover_docs, 1, Len(db.handover_docs))
                     = db.handover_docs
                /\ SubSeq(lists_widgets'[c], 1, Len(lists_widgets[c]))
                     = lists_widgets[c]
                /\ \A i \in DOMAIN rows :
                     /\ \E k \in DOMAIN files :
                          /\ files[k].copies
                          /\ rows[i].file_path = RelPath(c, files[k])
                     /\ <<get_current_project_dir, rows[i].file_path>> \in fs'
                /\ \A k \in DOMAIN files :
                     ~files[k].copies =>
                       /\ \A i \in DOMAIN rows :
                            rows[i].file_path # RelPath(c, files[k])
                       /\ \A i \in DOMAIN items :
                            items[i].path # RelPath(c, files[k])
      ]_vars

\* a batch of fmea.pdf and plan.pdf was added to project 1, the copy of
\* fmea.pdf failed and plan.pdf alone is copied, listed and cataloged
C25_Witness ==
    /\ last.op = "add_files" /\ last.ok
    /\ get_project_by_name(db, current_project) # <<>>
    /\ db.sqlite_sequence.handover_docs = 1
    /\ PathsOf(db.handover_docs) = << "PFMEA/plan.pdf" >>
    /\ lists_widgets["PFMEA"] = << PathItem("PFMEA/plan.pdf") >>
    /\ fs = { <<get_current_project_dir, "PFMEA/plan.pdf">> }


\* the relative paths of the files of a batch, in order
RelPaths(category, files) ==
    [ i \in 1..Len(files) |-> RelPath(category, files[i]) ]

\* C26: a call of add_files that gets past its early returns handles every
\* chosen file once and in order, whatever fails on the way: the files it
\* reports are exactly those whose copy or cataloging raised, every file
\* that copied is in the project directory and in the category's list, every
\* file for which nothing raised is cataloged if the project has a row, and
\* the loop reaches the last file
C26_FailureIsolation ==
    [][ \A c \in BatchCategories, files \in FileBatches :
          (AddFiles(c, files) /\ last'.ok) =>
            LET R       == add_files(Store(db, disk), c, files)
                has_row == get_project_by_name(db, current_project) # <<>>
                fails(f)  == ~f.copies \/ (has_row /\ ~f.catalogs)
                failing == SelectSeq(files, fails)
                copied  == SelectSeq(files, LAMBDA f : f.copies)
                clean   == SelectSeq(files, LAMBDA f : ~fails(f))
            IN  /\ R.progress = Len(files)
                /\ R.reported = [ i \in 1..Len(failing) |-> failing[i].name ]
                /\ fs' = fs \cup { <<get_current_project_dir, RelPath(c, copied[i])>> :
                                     i \in DOMAIN copied }
                /\ AddedTo(lists_widgets[c], lists_widgets'[c])
                     = [ i \in 1..Len(copied) |->
                           PathItem(RelPath(c, copied[i])) ]
                /\ PathsOf(AddedTo(db.handover_docs, db'.handover_docs))
                     = IF has_row THEN RelPaths(c, clean) ELSE <<>>
      ]_vars

\* a batch of fmea.pdf and plan.pdf was added to project 1, cataloging
\* fmea.pdf failed after its copy, and plan.pdf is copied, listed and
\* cataloged all the same
C26_Witness ==
    /\ last.op = "add_files" /\ last.ok
    /\ get_project_by_name(db, current_project) # <<>>
    /\ db.sqlite_sequence.handover_docs = 1
    /\ PathsOf(db.handover_docs) = << "PFMEA/plan.pdf" >>
    /\ lists_widgets["PFMEA"] =
         << PathItem("PFMEA/fmea.pdf"), PathItem("PFMEA/plan.pdf") >>
    /\ fs = { <<get_current_project_dir, "PFMEA/fmea.pdf">>,
              <<get_current_project_dir, "PFMEA/plan.pdf">> }


\* the stored metadata, workflow row and matrix rows of project pid
EditableRows(d, pid) ==
    [ projects          |-> RowsOf(d.projects, pid),
      mes               |-> RowsOf(d.mes, pid),
      assembly_drawings |-> RowsOf(d.assembly_drawings, pid),
      build_matrix      |-> RowsOf(d.build_matrix, pid),
      machine_matrix    |-> RowsOf(d.machine_matrix, pid) ]

\* C27: a step of the window changes the stored metadata, workflow row or
\* matrix rows of an existing project only while the editor is unlocked; an
\* enable_editing that is cancelled or given a wrong password leaves the
\* editor as locked as it was; a successful Update Project locks it
C27_EditLock ==
    [][ /\ \A pid \in ProjectIds(db) :
             EditableRows(db', pid) # EditableRows(db, pid) => form.unlocked
        /\ \A pwd \in PasswordsTyped, ok \in BOOLEAN :
             (EnableEditing(pwd, ok) /\ (~ok \/ pwd = "vvs")) =>
               form'.unlocked = form.unlocked
        /\ (last'.op = "update_project" /\ last'.ok) => ~form'.unlocked
      ]_vars


\* C28: when add_project creates Widget-A again after its deletion -- the
\* name has no row although a project id was handed out before -- the new
\* project gets an id that no project had, and no table holds a workflow
\* row, matrix row, document or checklist item of that id, whatever rows the
\* deleted project had and whatever was left behind or written under its id
C28_FreshAfterRecreation ==
    [][ ( /\ last'.op = "add_project" /\ last'.ok
          /\ get_project_by_name(db, "Widget-A") = <<>>
          /\ assigned # {} ) =>
          /\ last'.pid \notin assigned
          /\ Len(RowsOf(db'.projects, last'.pid)) = 1
          /\ \A t \in ChildTables : RowsOf(db'[t], last'.pid) = <<>>
      ]_vars

\* Widget-A was deleted as project 1 and created again as project 2; rows of
\* project 1 are still stored, in assembly_drawings, which delete_project
\* does not clear, and in the build matrix, saved under id 1 after the
\* deletion, and project 2 has none
C28_Witness ==
    /\ last.op = "add_project" /\ last.ok /\ last.pid = 2
    /\ ProjectIds(db) = {2}
    /\ db.projects[1].project_name = "Widget-A"
    /\ RowsOf(db.assembly_drawings, 1) # <<>>
    /\ RowsOf(db.build_matrix, 1) # <<>>
    /\ db.sqlite_sequence.checklist_items > 0
    /\ db.sqlite_sequence.handover_docs > 0
    /\ \A t \in ChildTables : RowsOf(db[t], 2) = <<>>


ProjectsOfDir(d, dir) ==
    { i \in DOMAIN d.projects :
        safe(d.projects[i].product_name, d.projects[i].project_name) = dir }

\* C30: the directories of distinct stored (product, project) pairs differ
\* wherever files are kept: no file lies in a directory that is the project
\* directory of two projects, and a handover package is archived from a
\* directory that belongs to one project only.
C30_DirectorySeparation ==
    /\ \A f \in fs : Cardinality(ProjectsOfDir(db, f[1])) <= 1
    /\ (last.op = "perform_handover" /\ last.ok) =>
          Cardinality(ProjectsOfDir(db, get_current_project_dir)) <= 1

====
